---- MODULE Spec2Model ----
(***************************************************************************)
(* Binarization Lab: the eight thresholding algorithms of                  *)
(* src/utils/binarizationAlgorithms.ts as a state machine.                 *)
(*                                                                         *)
(* One run of an algorithm is: the call (a 100 ms timer is armed and a     *)
(* pending promise returned), the timer callback (grayscale conversion,    *)
(* the pre-pass of Wolf / ISauvola / WAN / Otsu, the row-major per-pixel   *)
(* pass) and the resolution of the promise.  The callback is followed      *)
(* pixel by pixel, so that the order of its phases is observable.          *)
(*                                                                         *)
(* Arithmetic.  JavaScript numbers are IEEE-754 doubles.  Sums of pixel    *)
(* values and of their squares are integers far below 2^53 and are exact.  *)
(* Otsu's between-class variance is modelled bit for bit (division,        *)
(* subtraction and multiplication rounded to nearest-even, 53 bits),       *)
(* because its arg-max depends on the rounding.  The local thresholds      *)
(* involve square roots; their comparison "gray > threshold" is decided    *)
(* exactly over the reals (sign of a + b*sqrt(D) computed in integers),    *)
(* with NaN (0/0) kept as a separate outcome.  Integers wider than 32 bits *)
(* are sequences of 15-bit limbs, least significant first.                 *)
(***************************************************************************)
EXTENDS Integers, Sequences, FiniteSets

\* ------------------------------------------------------------------------
\* Natural numbers of any width: <<l1, l2, ...>> is l1 + l2*Base + ...
\* (no leading zero limb; <<>> is 0).
\* ------------------------------------------------------------------------
Base == 2^15

Sgn(n) == IF n > 0 THEN 1 ELSE IF n < 0 THEN -1 ELSE 0
Abs(n) == IF n < 0 THEN -n ELSE n
Min2(a, b) == IF a < b THEN a ELSE b
Max2(a, b) == IF a > b THEN a ELSE b

RECURSIVE IntBitLen(_)
IntBitLen(n) == IF n = 0 THEN 0 ELSE 1 + IntBitLen(n \div 2)
LimbBits == IntBitLen(Base - 1)

RECURSIVE NStrip(_)
NStrip(a) ==
    IF a = <<>> THEN a
    ELSE IF a[Len(a)] = 0 THEN NStrip(SubSeq(a, 1, Len(a) - 1)) ELSE a

RECURSIVE NOfInt(_)
NOfInt(n) == IF n = 0 THEN <<>> ELSE <<n % Base>> \o NOfInt(n \div Base)

Limb(a, i) == IF i <= Len(a) THEN a[i] ELSE 0

RECURSIVE NAddC(_, _, _, _)
NAddC(a, b, i, c) ==
    IF i > Len(a) /\ i > Len(b)
    THEN IF c = 0 THEN <<>> ELSE <<c>>
    ELSE LET s == Limb(a, i) + Limb(b, i) + c
         IN  <<s % Base>> \o NAddC(a, b, i + 1, s \div Base)
NAdd(a, b) == NAddC(a, b, 1, 0)

RECURSIVE NSubC(_, _, _, _)
NSubC(a, b, i, br) ==
    IF i > Len(a) THEN <<>>
    ELSE LET d == a[i] - Limb(b, i) - br
         IN  IF d < 0 THEN <<d + Base>> \o NSubC(a, b, i + 1, 1)
                      ELSE <<d>> \o NSubC(a, b, i + 1, 0)
\* a - b for a >= b
NSub(a, b) == NStrip(NSubC(a, b, 1, 0))

RECURSIVE NCmpFrom(_, _, _)
NCmpFrom(a, b, i) ==
    IF i = 0 THEN 0
    ELSE IF a[i] > b[i] THEN 1
    ELSE IF a[i] < b[i] THEN -1
    ELSE NCmpFrom(a, b, i - 1)
NCmp(a, b) ==
    IF Len(a) > Len(b) THEN 1
    ELSE IF Len(a) < Len(b) THEN -1
    ELSE NCmpFrom(a, b, Len(a))

RECURSIVE NMulLimbC(_, _, _, _)
NMulLimbC(a, d, i, c) ==
    IF i > Len(a)
    THEN IF c = 0 THEN <<>> ELSE <<c>>
    ELSE LET p == a[i] * d + c
         IN  <<p % Base>> \o NMulLimbC(a, d, i + 1, p \div Base)
\* a * d for one limb d
NMulLimb(a, d) == IF d = 0 THEN <<>> ELSE NMulLimbC(a, d, 1, 0)

RECURSIVE NMulFrom(_, _, _)
NMulFrom(a, b, j) ==
    IF j > Len(b) THEN <<>>
    ELSE LET rest == NMulFrom(a, b, j + 1)
             shifted == IF rest = <<>> THEN rest ELSE <<0>> \o rest
         IN  NAdd(NMulLimb(a, b[j]), shifted)
NMul(a, b) == IF a = <<>> \/ b = <<>> THEN <<>> ELSE NMulFrom(a, b, 1)

RECURSIVE Zeros(_)
Zeros(k) == IF k = 0 THEN <<>> ELSE <<0>> \o Zeros(k - 1)

\* a * 2^k
NShl(a, k) ==
    IF a = <<>> THEN a
    ELSE Zeros(k \div LimbBits) \o NMulLimb(a, 2^(k % LimbBits))

RECURSIVE NDivSmallFrom(_, _, _, _)
NDivSmallFrom(a, q, i, r) ==
    IF i = 0 THEN [quo |-> <<>>, rem |-> r]
    ELSE LET cur == r * Base + a[i]
             lower == NDivSmallFrom(a, q, i - 1, cur % q)
         IN  [quo |-> lower.quo \o <<cur \div q>>, rem |-> lower.rem]
\* floor(a / q) and a mod q for 0 < q < 2^16
NDivSmall(a, q) ==
    LET r == NDivSmallFrom(a, q, Len(a), 0)
    IN  [quo |-> NStrip(r.quo), rem |-> r.rem]

\* floor(a / 2^k)
NShr(a, k) ==
    LET drop == k \div LimbBits
    IN  IF drop >= Len(a) THEN <<>>
        ELSE NDivSmall(SubSeq(a, drop + 1, Len(a)), 2^(k % LimbBits)).quo

NBitLen(a) ==
    IF a = <<>> THEN 0 ELSE LimbBits * (Len(a) - 1) + IntBitLen(a[Len(a)])
NIsOdd(a) == a # <<>> /\ a[1] % 2 = 1

\* Signed integers of any width: [s |-> sign, m |-> magnitude].
ZOf(n) == [s |-> Sgn(n), m |-> NOfInt(Abs(n))]
ZNeg(a) == [s |-> -a.s, m |-> a.m]
ZAdd(a, b) ==
    IF a.s = 0 THEN b
    ELSE IF b.s = 0 THEN a
    ELSE IF a.s = b.s THEN [s |-> a.s, m |-> NAdd(a.m, b.m)]
    ELSE LET c == NCmp(a.m, b.m)
         IN  IF c = 0 THEN [s |-> 0, m |-> <<>>]
             ELSE IF c > 0 THEN [s |-> a.s, m |-> NSub(a.m, b.m)]
             ELSE [s |-> b.s, m |-> NSub(b.m, a.m)]
ZSub(a, b) == ZAdd(a, ZNeg(b))
ZMul(a, b) ==
    IF a.s = 0 \/ b.s = 0 THEN [s |-> 0, m |-> <<>>]
    ELSE [s |-> a.s * b.s, m |-> NMul(a.m, b.m)]
ZCmp(a, b) == ZSub(a, b).s

\* ------------------------------------------------------------------------
\* IEEE-754 doubles (finite): [s |-> sign, m |-> magnitude, e |-> exponent]
\* is s * m * 2^e with m < 2^53 + 1.  Every operation computes the exact
\* result and rounds it to 53 significant bits, ties to even.
\* ------------------------------------------------------------------------
MantBits == IntBitLen(2^26 - 1) + IntBitLen(2^27 - 1)
FZero == [s |-> 0, m |-> <<>>, e |-> 0]

\* sticky: the exact value lies strictly above s*m*2^e (only given with
\* more than MantBits + 1 bits in m).
FRound(s, m, e, sticky) ==
    LET L == NBitLen(m)
    IN  IF m = <<>> THEN FZero
        ELSE IF L <= MantBits THEN [s |-> s, m |-> m, e |-> e]
        ELSE LET sh == L - MantBits
                 kept == NShr(m, sh)
                 rem == NSub(m, NShl(kept, sh))
                 c == NCmp(rem, NShl(<<1>>, sh - 1))
                 up == c > 0 \/ (c = 0 /\ (sticky \/ NIsOdd(kept)))
             IN  [s |-> s,
                  m |-> IF up THEN NAdd(kept, <<1>>) ELSE kept,
                  e |-> e + sh]

FOfInt(n) == [s |-> Sgn(n), m |-> NOfInt(Abs(n)), e |-> 0]

\* p / q for integers p >= 0 and 0 < q < 2^16
FDivInt(p, q) ==
    IF p = 0 THEN FZero
    ELSE LET k == MantBits + IntBitLen(Base) + 1
             d == NDivSmall(NShl(NOfInt(p), k), q)
         IN  FRound(1, d.quo, -k, d.rem # 0)

\* the exact difference a - b as a signed integer times 2^e
FExactSub(a, b) ==
    LET e0 == IF a.s = 0 THEN b.e ELSE IF b.s = 0 THEN a.e ELSE Min2(a.e, b.e)
        za == [s |-> a.s, m |-> IF a.s = 0 THEN <<>> ELSE NShl(a.m, a.e - e0)]
        zb == [s |-> b.s, m |-> IF b.s = 0 THEN <<>> ELSE NShl(b.m, b.e - e0)]
    IN  [z |-> ZSub(za, zb), e |-> e0]
FSub(a, b) ==
    LET d == FExactSub(a, b) IN FRound(d.z.s, d.z.m, d.e, FALSE)
FMul(a, b) ==
    IF a.s = 0 \/ b.s = 0 THEN FZero
    ELSE FRound(a.s * b.s, NMul(a.m, b.m), a.e + b.e, FALSE)
FGt(a, b) == FExactSub(a, b).z.s > 0
FAdd(a, b) == FSub(a, [s |-> -b.s, m |-> b.m, e |-> b.e])

\* Conversion of a non-negative double to a Uint8ClampedArray element:
\* clamped to 255, rounded to the nearest integer, ties to even.
ToUint8Clamp(f) ==
    IF f.s <= 0 THEN 0
    ELSE IF f.e >= 0 THEN 255
    ELSE LET ip == NShr(f.m, -f.e)
             rem == NSub(f.m, NShl(ip, -f.e))
             c == NCmp(rem, NShl(<<1>>, -f.e - 1))
         IN  IF NCmp(ip, <<255>>) >= 0 THEN 255
             ELSE LET q == IF ip = <<>> THEN 0 ELSE ip[1]
                  IN  IF c > 0 \/ (c = 0 /\ q % 2 = 1) THEN q + 1 ELSE q

\* ------------------------------------------------------------------------
\* Sign of a + b*sqrt(X) and of (a + c*sqrt(D)) + (b + d*sqrt(D))*sqrt(E)
\* for signed integers a, b, c, d and X, D, E >= 0: exact real comparison.
\* ------------------------------------------------------------------------
SignAB(a, b, X) ==
    LET sb == b.s * X.s
    IN  IF sb = 0 THEN a.s
        ELSE IF a.s = 0 \/ a.s = sb THEN sb
        ELSE a.s * ZCmp(ZMul(a, a), ZMul(ZMul(b, b), X))
SignABCD(a, c, D, b, d, E) ==
    LET sU == SignAB(a, c, D)
        sV == SignAB(b, d, D) * E.s
    IN  IF sV = 0 THEN sU
        ELSE IF sU = 0 \/ sU = sV THEN sV
        ELSE LET w0 == ZSub(ZAdd(ZMul(a, a), ZMul(ZMul(c, c), D)),
                            ZMul(E, ZAdd(ZMul(b, b), ZMul(ZMul(d, d), D))))
                 w1 == ZSub(ZMul(ZOf(2), ZMul(a, c)),
                            ZMul(ZMul(ZOf(2), ZMul(b, d)), E))
             IN  sU * SignAB(w0, w1, D)
\* Sign of a*sqrt(P) - b*sqrt(Q)
SignSqrtDiff(a, P, b, Q) ==
    LET l == [s |-> a.s * P.s, m |-> NMul(NMul(a.m, a.m), P.m)]
        r == [s |-> b.s * Q.s, m |-> NMul(NMul(b.m, b.m), Q.m)]
    IN  ZCmp(l, r)
\* The outcome of "gray > threshold" from the sign of gray - threshold.
CmpOfSign(sg) == IF sg > 0 THEN "gt" ELSE IF sg < 0 THEN "lt" ELSE "eq"

\* ------------------------------------------------------------------------
\* binarizationAlgorithms.ts: pure parts.  A JavaScript array a is the
\* sequence whose element i + 1 is a[i].
\* ------------------------------------------------------------------------
At(a, i) == a[i + 1]

\* The parameter k (or p) is KNum / KDen: the slider moves in steps of 0.01.
\* k is taken as that rational; the double nearest to it (-0.2 is not a
\* double) is closer to it than any threshold here is to a gray value it
\* does not equal.
KDen == 100
\* R, the dynamic range of the standard deviation (Sauvola and its kin)
R == 128

\* the doubles 0.299, 0.587 and 0.114
WeightR == FDivInt(299, 1000)
WeightG == FDivInt(587, 1000)
WeightB == FDivInt(114, 1000)
\* toGrayscale, one element: 0.299 * r + 0.587 * g + 0.114 * b stored into
\* a Uint8ClampedArray.  A sample read past the end of data is undefined,
\* the sum is NaN, and NaN is stored as 0.
\* The conversion reading each pixel one sample too far: G, B, A
GrayOfPixelShifted(data, p) ==
    IF 4 * p + 3 >= Len(data) THEN 0
    ELSE ToUint8Clamp(
           FAdd(FAdd(FMul(WeightR, FOfInt(At(data, 4 * p + 1))),
                     FMul(WeightG, FOfInt(At(data, 4 * p + 2)))),
                FMul(WeightB, FOfInt(At(data, 4 * p + 3)))))
GrayOfPixel(data, p) ==
    IF 4 * p + 2 >= Len(data) THEN 0
    ELSE ToUint8Clamp(
           FAdd(FAdd(FMul(WeightR, FOfInt(At(data, 4 * p))),
                     FMul(WeightG, FOfInt(At(data, 4 * p + 1)))),
                FMul(WeightB, FOfInt(At(data, 4 * p + 2)))))
\* toGrayscale: width * height elements, zero where the loop over data
\* wrote nothing; writes past the end of the buffer are dropped.
toGrayscale(img) ==
    [p \in 1..(img.width * img.height) |->
        IF 4 * (p - 1) < Len(img.data) THEN GrayOfPixel(img.data, p - 1) ELSE 0]

\* new ImageData(width, height) throws for a zero width or height.
ImageDataThrows(width, height) == width < 1 \/ height < 1
\* new ImageData(width, height).data: transparent black
NewImageData(width, height) == [i \in 1..(4 * width * height) |-> 0]

\* Variants of the decision, for comparison with pixelValue: gray >= t, and
\* !(gray <= t), which a NaN threshold turns into 255
pixelValueNonStrict(cmp) == IF cmp \in {"gt", "eq"} THEN 255 ELSE 0
pixelValueNotBelow(cmp) == IF cmp \in {"gt", "nan"} THEN 255 ELSE 0
\* gray > t ? 255 : 0, on the outcome of the comparison (NaN compares false)
\* The two values exchanged: 0 above the threshold, 255 otherwise
pixelValueInverted(cmp) == IF cmp = "gt" THEN 0 ELSE 255
pixelValue(cmp) == IF cmp = "gt" THEN 255 ELSE 0
\* A variant of WritePixel that leaves the alpha sample as allocated
WritePixelRGB(data, i, value) ==
    [j \in 1..Len(data) |->
        IF j \in {4 * i + 1, 4 * i + 2, 4 * i + 3} THEN value ELSE data[j]]
\* data[pixelIndex .. pixelIndex + 3] = value, value, value, 255
WritePixel(data, i, value) ==
    [j \in 1..Len(data) |->
        IF j \in {4 * i + 1, 4 * i + 2, 4 * i + 3} THEN value
        ELSE IF j = 4 * i + 4 THEN 255
        ELSE data[j]]

\* Math.floor in the place of Math.ceil
FloorDiv(a, b) == a \div b
\* windowSize = Math.max(3, Math.ceil(Math.min(width, height) / 30))
\* (the quotient of two integers below 2^53 by 30 is either an integer,
\* exactly, or further from one than a rounding error, so Math.ceil of the
\* double is the ceiling of the exact quotient)
CeilDiv(a, b) == (a + b - 1) \div b
WindowSizeOf(width, height) == Max2(3, CeilDiv(Min2(width, height), 30))

\* sum += pixel (squaredSum += pixel * pixel) over the samples of S, with
\* pixel = grayscale[wy * width + wx]
RECURSIVE SumOver(_, _, _, _)
SumOver(gray, width, S, sq) ==
    IF S = {} THEN 0
    ELSE LET p == CHOOSE q \in S : TRUE
             v == At(gray, p[2] * width + p[1])
         IN  (IF sq THEN v * v ELSE v) + SumOver(gray, width, S \ {p}, sq)

\* A window that wraps around the edges of the image instead of stopping
\* at them
WindowWrapped(x, y, width, height, halfWindow) ==
    {<<wx % width, wy % height>> :
        wx \in (x - halfWindow)..(x + halfWindow),
        wy \in (y - halfWindow)..(y + halfWindow)}
\* The samples (wx, wy) read by the window loops around (x, y)
WindowOf(x, y, width, height, halfWindow) ==
    LET startX == Max2(0, x - halfWindow)
        endX == Min2(width - 1, x + halfWindow)
        startY == Max2(0, y - halfWindow)
        endY == Min2(height - 1, y + halfWindow)
    IN  (startX..endX) \X (startY..endY)
\* Statistics whose variance is squaredSum / count - mean (the mean not
\* squared)
StatsOverMeanNotSquared(gray, width, win) ==
    LET sm == SumOver(gray, width, win, FALSE)
        sq == SumOver(gray, width, win, TRUE)
        n == Cardinality(win)
    IN  [sum |-> sm, squaredSum |-> sq, count |-> n,
         D |-> n * sq - n * sm, reads |-> win]
\* sum, squaredSum and count of the window loops; mean is sum / count,
\* variance is squaredSum / count - mean^2 = D / count^2 and stdDev is
\* sqrt(D) / count, with D = count * squaredSum - sum^2.
StatsOver(gray, width, win) ==
    LET sm == SumOver(gray, width, win, FALSE)
        sq == SumOver(gray, width, win, TRUE)
        n == Cardinality(win)
    IN  [sum |-> sm, squaredSum |-> sq, count |-> n,
         D |-> n * sq - sm * sm, reads |-> win]
\* mean = sum / count and variance = squaredSum / count - mean * mean, as the
\* doubles the code computes; Math.sqrt(variance) is NaN for a negative one
meanOf(st) == FDivInt(st.sum, st.count)
\* the subtraction with its operands exchanged
varianceSwapped(st) ==
    FSub(FMul(meanOf(st), meanOf(st)), FDivInt(st.squaredSum, st.count))
varianceOf(st) ==
    FSub(FDivInt(st.squaredSum, st.count), FMul(meanOf(st), meanOf(st)))
calculateLocalStats(gray, x, y, width, height, windowSize) ==
    StatsOver(gray, width, WindowOf(x, y, width, height, windowSize \div 2))
\* Window loops that stop one short: wx < endX and wy < endY, the pixel's
\* own row and column kept
inlineStatsHalfOpen(gray, x, y, width, height, halfWindow) ==
    StatsOver(gray, width,
              {p \in WindowOf(x, y, width, height, halfWindow) :
                   p[1] <= x /\ p[2] <= y})
\* the window loops written out in niblackThreshold and sauvolaThreshold
inlineLocalStats(gray, x, y, width, height, halfWindow) ==
    StatsOver(gray, width, WindowOf(x, y, width, height, halfWindow))

\* ---- Otsu ----
histogramOf(gray) ==
    [t \in 0..255 |-> Cardinality({i \in 1..Len(gray) : gray[i] = t})]
\* sum of idx * histogram[idx] over lo..hi (histogram.reduce)
RECURSIVE WeightedSum(_, _, _)
WeightedSum(hist, lo, hi) ==
    IF lo = hi THEN lo * hist[lo]
    ELSE LET mid == (lo + hi) \div 2
         IN  WeightedSum(hist, lo, mid) + WeightedSum(hist, mid + 1, hi)
\* wB * wF * (mB - mF) * (mB - mF), in doubles, left to right
BetweenClassVariance(wB, wF, sumB, sum) ==
    LET mB == FDivInt(sumB, wB)
        mF == FDivInt(sum - sumB, wF)
        d == FSub(mB, mF)
    IN  FMul(FMul(FOfInt(wB * wF), d), d)
\* The comparison turned round: variance < maxVariance
VarianceBelow(variance, maxVariance) == FGt(maxVariance, variance)
\* variance > maxVariance
VarianceBeats(variance, maxVariance) == FGt(variance, maxVariance)
\* The loop over t = 0..255, at the occupied bins only.  An iteration at an
\* empty bin changes nothing: wB, wF and sumB stay as they were, so it
\* either continues (wB = 0) or computes the variance the iteration before
\* computed, which is not greater than maxVariance; and wF = 0 first holds
\* at an occupied bin.  levels: the occupied bins not yet visited; best:
\* maxVariance and threshold.
RECURSIVE OtsuScan(_, _, _, _, _, _, _)
OtsuScan(hist, total, sum, levels, wB, sumB, best) ==
    IF levels = {} THEN best.threshold
    ELSE LET t == CHOOSE u \in levels : \A o \in levels : u <= o
             wB1 == wB + hist[t]
             wF == total - wB1
             sumB1 == sumB + t * hist[t]
             variance == BetweenClassVariance(wB1, wF, sumB1, sum)
         IN  IF wF = 0 THEN best.threshold
             ELSE OtsuScan(hist, total, sum, levels \ {t}, wB1, sumB1,
                           IF VarianceBeats(variance, best.maxVariance)
                           THEN [maxVariance |-> variance, threshold |-> t]
                           ELSE best)
otsuThresholdOf(gray) ==
    LET hist == histogramOf(gray)
    IN  OtsuScan(hist, Len(gray), WeightedSum(hist, 0, 255),
                 {t \in 0..255 : hist[t] > 0}, 0, 0,
                 [maxVariance |-> FZero, threshold |-> 0])
\* A comparison that also lets a gray value equal to the threshold through
OtsuCmpNonStrict(g, threshold) == CmpOfSign(g - threshold + 1)

\* applyThreshold: gray > threshold for a number threshold
OtsuCmp(g, threshold) == CmpOfSign(g - threshold)

\* ---- the local thresholds: the outcome of gray > threshold ----
\* Niblack: threshold = mean + k * stdDev
NiblackCmp(g, st, kn) ==
    CmpOfSign(SignAB(ZOf(KDen * (st.count * g - st.sum)), ZOf(-kn), ZOf(st.D)))
\* Sauvola, T.R. Singh: threshold = mean * (1 + k * (stdDev / R - 1))
SauvolaCmp(g, st, kn) ==
    CmpOfSign(SignAB(
        ZMul(ZOf(R * st.count),
             ZOf(KDen * (st.count * g - st.sum) + st.sum * kn)),
        ZOf(-(st.sum * kn)), ZOf(st.D)))
\* NICK: threshold = mean + k * sqrt(variance + mean * mean)
NickCmp(g, st, kn) ==
    CmpOfSign(SignAB(ZOf(KDen * (st.count * g - st.sum)), ZOf(-kn),
                     ZOf(st.count * st.squaredSum)))

\* Wolf: a standard deviation is kept as [D, count], meaning sqrt(D)/count.
StdDevOf(st) == [D |-> st.D, count |-> st.count]
StdDevGt(a, b) == a.D * b.count * b.count > b.D * a.count * a.count
\* The deviation seen last kept, whether greater or not
MaxStdDevLatest(maxStdDev, sd) == sd
\* Math.max(maxStdDev, stdDev)
MaxStdDev(maxStdDev, sd) == IF StdDevGt(sd, maxStdDev) THEN sd ELSE maxStdDev
\* threshold = mean - k * (1 - stdDev / maxStdDev) * (mean - minVal);
\* maxStdDev = 0 makes stdDev / maxStdDev = 0 / 0 = NaN.
WolfRatioIsNaN(st, maxStdDev) == maxStdDev.D = 0 /\ st.D = 0
WolfCmp(g, st, kn, minVal, maxStdDev) ==
    LET spread == kn * (st.sum - st.count * minVal)
    IN  IF WolfRatioIsNaN(st, maxStdDev) THEN "nan"
        ELSE IF maxStdDev.D = 0
        THEN \* stdDev / 0 = Infinity: threshold is NaN or an infinity
             IF spread = 0 THEN "nan" ELSE IF spread > 0 THEN "lt" ELSE "gt"
        ELSE CmpOfSign(SignSqrtDiff(
                 ZOf((KDen * (st.count * g - st.sum) + spread) * st.count),
                 ZOf(maxStdDev.D),
                 ZOf(spread * maxStdDev.count),
                 ZOf(st.D)))

\* ISauvola: gs = [sum, squaredSum, count] of the whole buffer;
\* globalStdDev = sqrt(Dg) / count with Dg = count * squaredSum - sum^2.
GlobalD(gs) == gs.count * gs.squaredSum - gs.sum * gs.sum
\* alpha = Math.max(0, Math.min(1, stdDev / globalStdDev));
\* dynamicK = k * (1 - alpha);
\* threshold = mean * (1 + dynamicK * ((stdDev / R) - 1))
ISauvolaAlphaIsNaN(st, gs) == GlobalD(gs) = 0 /\ st.D = 0
ISauvolaAlphaIsOne(st, gs) ==
    ZCmp(ZMul(ZOf(st.D), ZOf(gs.count * gs.count)),
         ZMul(ZOf(GlobalD(gs)), ZOf(st.count * st.count))) >= 0
ISauvolaCmp(g, st, kn, gs) ==
    IF ISauvolaAlphaIsNaN(st, gs) THEN "nan"
    ELSE IF ISauvolaAlphaIsOne(st, gs)
    THEN CmpOfSign(Sgn(st.count * g - st.sum))
    ELSE LET n == st.count
             sk == ZOf(st.sum * kn)
             c0 == ZMul(sk, ZOf(st.D * gs.count))
             c1 == ZNeg(ZMul(sk, ZOf(R * n * gs.count)))
             c2 == ZMul(ZOf(R * n * n),
                        ZOf(KDen * (n * g - st.sum) + st.sum * kn))
             c3 == ZNeg(ZMul(sk, ZOf(n)))
         IN  CmpOfSign(SignABCD(c0, c1, ZOf(st.D), c2, c3, ZOf(GlobalD(gs))))

\* WAN: the Sobel magnitude sqrt(gx*gx + gy*gy) stored into a Float32Array
\* is [m, s], meaning m / 2^s: the float nearest to the square root.
RECURSIVE FloorSqrtIn(_, _, _)
FloorSqrtIn(X, lo, hi) ==
    IF hi - lo <= 1 THEN lo
    ELSE LET mid == (lo + hi) \div 2
         IN  IF NCmp(NMul(NOfInt(mid), NOfInt(mid)), X) <= 0
             THEN FloorSqrtIn(X, mid, hi)
             ELSE FloorSqrtIn(X, lo, mid)
Float32Sqrt(E) ==
    IF E = 0 THEN [m |-> 0, s |-> 0]
    ELSE LET s == (48 - IntBitLen(E)) \div 2
             X == NShl(NOfInt(E), 2 * s)
             m0 == FloorSqrtIn(X, 2^23, 2^24)
             up == NCmp(X, NMul(NOfInt(m0), NOfInt(m0 + 1))) > 0
         IN  [m |-> IF up THEN m0 + 1 ELSE m0, s |-> s]
\* A horizontal gradient with the middle row weighted like the others
SobelGxUnweighted(gray, x, y, width) ==
    - At(gray, (y - 1) * width + (x - 1)) + At(gray, (y - 1) * width + (x + 1))
    - At(gray, y * width + (x - 1)) + At(gray, y * width + (x + 1))
    - At(gray, (y + 1) * width + (x - 1)) + At(gray, (y + 1) * width + (x + 1))
SobelGx(gray, x, y, width) ==
    - At(gray, (y - 1) * width + (x - 1)) + At(gray, (y - 1) * width + (x + 1))
    - 2 * At(gray, y * width + (x - 1)) + 2 * At(gray, y * width + (x + 1))
    - At(gray, (y + 1) * width + (x - 1)) + At(gray, (y + 1) * width + (x + 1))
SobelGy(gray, x, y, width) ==
    - At(gray, (y - 1) * width + (x - 1)) - 2 * At(gray, (y - 1) * width + x)
    - At(gray, (y - 1) * width + (x + 1)) + At(gray, (y + 1) * width + (x - 1))
    + 2 * At(gray, (y + 1) * width + x) + At(gray, (y + 1) * width + (x + 1))
EdgeAt(gray, x, y, width) ==
    LET gx == SobelGx(gray, x, y, width)
        gy == SobelGy(gray, x, y, width)
    IN  Float32Sqrt(gx * gx + gy * gy)
\* edgeStrength = edges[i] / 255; adaptiveK = k * (1 + edgeStrength);
\* threshold = mean * (1 + adaptiveK * (stdDev / 128 - 1))
WanCmp(g, st, kn, edge) ==
    LET H == [s |-> 1, m |-> NShl(<<255>>, edge.s)]
        F == ZAdd(H, ZOf(edge.m))
        skF == ZMul(ZOf(st.sum * kn), F)
        a == ZMul(ZOf(128 * st.count),
                  ZAdd(ZMul(ZOf(KDen * (st.count * g - st.sum)), H), skF))
    IN  CmpOfSign(SignAB(a, ZNeg(skF), ZOf(st.D)))

\* ------------------------------------------------------------------------
\* One run of one algorithm: process(imgData, canvas, parameter)
\* ------------------------------------------------------------------------
Algorithms ==
    {"otsu", "niblack", "sauvola", "wolf", "nick", "trsingh", "isauvola", "wan"}
\* the default of each function's third argument, as KNum
DefaultParameter(a) == IF a \in {"niblack", "nick"} THEN -20 ELSE 50

VARIABLES
    alg,          \* the algorithm called
    parameter,    \* its k (or p), as KNum
    imgData,      \* the input ImageData: [width, height, data]
    windowSize,   \* the window size the function derived from the dimensions
    pc,           \* idle, scheduled, prepass, main, resolved, thrown (sized, probed)
    grayscale,    \* the Uint8ClampedArray of toGrayscale
    pre,          \* pre-pass: iterations done
    minVal,       \* Wolf
    maxStdDev,    \* Wolf
    globalStats,  \* ISauvola: running sum, squaredSum, count
    edges,        \* WAN: the Float32Array
    threshold,    \* Otsu
    result,       \* result.data
    cur,          \* per-pixel pass: pixels written
    decided,      \* the outcome of gray > threshold at each written pixel
    lastStats,    \* the window statistics computed last
    resolved,     \* the value the promise was resolved with
    originalImage,  \* App: the uploaded image (NoImage for null)
    components,     \* the BinarizedImage components, by algorithm id
    effects,        \* the components whose useEffect is due
    timers,         \* the callbacks of setTimeout(..., 100), oldest first
    user,           \* how many uploads and slider changes were made
    selectedAlgorithms,  \* AlgorithmComparison: the ids ticked
    isProcessing    \* App: the flag of handleImageUpload

\* the page around the algorithms
ui == <<originalImage, components, effects, timers, user, selectedAlgorithms,
       isProcessing>>

vars == <<alg, parameter, imgData, windowSize, pc, grayscale, pre, minVal, maxStdDev,
          globalStats, edges, threshold, result, cur, decided, lastStats,
          resolved, ui>>

NoStats == [sum |-> 0, squaredSum |-> 0, count |-> 0, D |-> 0, reads |-> {}]
NoImage == [width |-> 0, height |-> 0, data |-> <<>>]
ZeroStdDev == [D |-> 0, count |-> 1]
ZeroSums == [sum |-> 0, squaredSum |-> 0, count |-> 0]

width == imgData.width
height == imgData.height
\* the function allocates result before its loops, except Wolf (after the
\* first pass) and Otsu (in applyThreshold)
AllocatesLate(a) == a \in {"otsu", "wolf"}
HasPrePass(a) == a \in {"otsu", "wolf", "isauvola", "wan"}
InteriorW == Max2(0, width - 2)
InteriorH == Max2(0, height - 2)
PreTotal ==
    IF alg = "otsu" THEN 1
    ELSE IF alg = "wan" THEN InteriorW * InteriorH
    ELSE Len(grayscale)

\* a function called on its own: no page around it
NoPage ==
    /\ originalImage = NoImage
    /\ components = <<>>
    /\ effects = {}
    /\ timers = <<>>
    /\ user = [uploads |-> 0, changes |-> 0]
    /\ selectedAlgorithms = {}
    /\ isProcessing = FALSE

StartState(a, k, img) ==
    /\ alg = a
    /\ parameter = k
    /\ imgData = img
    /\ windowSize = 0
    /\ pc = "idle"
    /\ grayscale = <<>>
    /\ pre = 0
    /\ minVal = 255
    /\ maxStdDev = ZeroStdDev
    /\ globalStats = ZeroSums
    /\ edges = <<>>
    /\ threshold = 0
    /\ result = <<>>
    /\ cur = 0
    /\ decided = <<>>
    /\ lastStats = NoStats
    /\ resolved = NoImage
    /\ NoPage

\* the call: new Promise(...) arms setTimeout(..., 100) and returns
Call ==
    /\ UNCHANGED ui
    /\ pc = "idle"
    /\ pc' = "scheduled"
    /\ UNCHANGED <<alg, parameter, imgData, windowSize,
                   grayscale, pre, minVal, maxStdDev,
                   globalStats, edges, threshold, result, cur, decided,
                   lastStats, resolved>>

\* the timer callback up to its first loop
Begin ==
    /\ UNCHANGED ui
    /\ pc = "scheduled"
    /\ ImageDataThrows(width, height) => AllocatesLate(alg)
    /\ grayscale' = toGrayscale(imgData)
    /\ windowSize' = IF alg = "otsu" THEN windowSize
                     ELSE WindowSizeOf(width, height)
    /\ result' = IF AllocatesLate(alg) THEN <<>> ELSE NewImageData(width, height)
    /\ edges' = IF alg = "wan" THEN [i \in 1..(width * height) |-> Float32Sqrt(0)]
                ELSE edges
    /\ pc' = IF HasPrePass(alg) THEN "prepass" ELSE "main"
    /\ UNCHANGED <<alg, parameter, imgData, pre, minVal, maxStdDev, globalStats,
                   threshold, cur, decided, lastStats, resolved>>

\* new ImageData(width, height) throws inside the callback: the promise is
\* never settled
BeginThrows ==
    /\ UNCHANGED ui
    /\ pc = "scheduled"
    /\ ~AllocatesLate(alg) /\ ImageDataThrows(width, height)
    /\ grayscale' = toGrayscale(imgData)
    /\ pc' = "thrown"
    /\ UNCHANGED <<alg, parameter, imgData, windowSize,
                   pre, minVal, maxStdDev, globalStats,
                   edges, threshold, result, cur, decided, lastStats, resolved>>

WolfFirstPassStep ==
    LET x == pre % width
        y == pre \div width
        pixel == At(grayscale, y * width + x)
        st == calculateLocalStats(grayscale, x, y, width, height, windowSize)
    IN  /\ minVal' = Min2(minVal, pixel)
        /\ maxStdDev' = MaxStdDev(maxStdDev, StdDevOf(st))
        /\ lastStats' = st
        /\ UNCHANGED <<globalStats, edges, threshold>>
ISauvolaFirstPassStep ==
    LET g == At(grayscale, pre)
    IN  /\ globalStats' = [sum |-> globalStats.sum + g,
                           squaredSum |-> globalStats.squaredSum + g * g,
                           count |-> globalStats.count + 1]
        /\ UNCHANGED <<minVal, maxStdDev, edges, threshold, lastStats>>
WanEdgeStep ==
    LET x == 1 + (pre % InteriorW)
        y == 1 + (pre \div InteriorW)
    IN  /\ edges' = [edges EXCEPT ![y * width + x + 1] =
                                      EdgeAt(grayscale, x, y, width)]
        /\ UNCHANGED <<minVal, maxStdDev, globalStats, threshold, lastStats>>
OtsuSearch ==
    /\ threshold' = otsuThresholdOf(grayscale)
    /\ UNCHANGED <<minVal, maxStdDev, globalStats, edges, lastStats>>

\* one iteration of the pre-pass loop (Otsu: the histogram and the search)
PrePassStep ==
    /\ UNCHANGED ui
    /\ pc = "prepass"
    /\ pre < PreTotal
    /\ pre' = pre + 1
    /\ CASE alg = "wolf" -> WolfFirstPassStep
         [] alg = "isauvola" -> ISauvolaFirstPassStep
         [] alg = "wan" -> WanEdgeStep
         [] OTHER -> OtsuSearch
    /\ UNCHANGED <<alg, parameter, imgData, windowSize,
                   pc, grayscale, result, cur, decided,
                   resolved>>

\* A per-pixel pass that starts as soon as the first pass has visited one
\* pixel
PrePassStarted == pre >= 1
\* The guard under which the per-pixel pass may start
PrePassComplete == pre = PreTotal

PrePassEnd ==
    /\ UNCHANGED ui
    /\ pc = "prepass"
    /\ PrePassComplete
    /\ ~(AllocatesLate(alg) /\ ImageDataThrows(width, height))
    /\ result' = IF AllocatesLate(alg) THEN NewImageData(width, height) ELSE result
    /\ pc' = "main"
    /\ UNCHANGED <<alg, parameter, imgData, windowSize,
                   grayscale, pre, minVal, maxStdDev,
                   globalStats, edges, threshold, cur, decided, lastStats,
                   resolved>>

PrePassEndThrows ==
    /\ UNCHANGED ui
    /\ pc = "prepass"
    /\ PrePassComplete
    /\ AllocatesLate(alg) /\ ImageDataThrows(width, height)
    /\ pc' = "thrown"
    /\ UNCHANGED <<alg, parameter, imgData, windowSize,
                   grayscale, pre, minVal, maxStdDev,
                   globalStats, edges, threshold, result, cur, decided,
                   lastStats, resolved>>

\* the window statistics the per-pixel pass of algorithm a computes at (x, y)
StatsFor(a, gray, x, y, w, h, ws) ==
    IF a = "otsu" THEN NoStats
    ELSE IF a \in {"niblack", "sauvola"}
    THEN inlineLocalStats(gray, x, y, w, h, ws \div 2)
    ELSE calculateLocalStats(gray, x, y, w, h, ws)
\* A decision whose threshold moves with the slider for every algorithm:
\* gray > threshold + 255 k
CmpForSliderShift(a, g, st, kn, thr, mn, mx, gs, edge) ==
    CmpOfSign(KDen * (g - thr) - 255 * kn)

\* the outcome of gray > threshold at a pixel
CmpFor(a, g, st, kn, thr, mn, mx, gs, edge) ==
    CASE a = "otsu" -> OtsuCmp(g, thr)
      [] a = "niblack" -> NiblackCmp(g, st, kn)
      [] a \in {"sauvola", "trsingh"} -> SauvolaCmp(g, st, kn)
      [] a = "wolf" -> WolfCmp(g, st, kn, mn, mx)
      [] a = "nick" -> NickCmp(g, st, kn)
      [] a = "isauvola" -> ISauvolaCmp(g, st, kn, gs)
      [] OTHER -> WanCmp(g, st, kn, edge)

\* A loop that writes its pixels into the buffer it was given as well
MainStepInPlace ==
    /\ UNCHANGED ui
    /\ pc = "main"
    /\ cur < width * height
    /\ LET x == cur % width
           y == cur \div width
           g == At(grayscale, cur)
           st == StatsFor(alg, grayscale, x, y, width, height, windowSize)
           cmp == CmpFor(alg, g, st, parameter, threshold, minVal, maxStdDev,
                         globalStats,
                         IF alg = "wan" THEN At(edges, cur) ELSE Float32Sqrt(0))
       IN  /\ result' = WritePixel(result, cur, pixelValue(cmp))
           /\ imgData' = [imgData EXCEPT
                             !.data = WritePixel(imgData.data, cur, pixelValue(cmp))]
           /\ decided' = Append(decided, cmp)
           /\ lastStats' = st
    /\ cur' = cur + 1
    /\ UNCHANGED <<alg, parameter, windowSize,
                   pc, grayscale, pre, minVal,
                   maxStdDev, globalStats, edges, threshold, resolved>>

\* one iteration of the per-pixel loop
MainStep ==
    /\ UNCHANGED ui
    /\ pc = "main"
    /\ cur < width * height
    /\ LET x == cur % width
           y == cur \div width
           g == At(grayscale, cur)
           st == StatsFor(alg, grayscale, x, y, width, height, windowSize)
           cmp == CmpFor(alg, g, st, parameter, threshold, minVal, maxStdDev,
                         globalStats,
                         IF alg = "wan" THEN At(edges, cur) ELSE Float32Sqrt(0))
       IN  /\ result' = WritePixel(result, cur, pixelValue(cmp))
           /\ decided' = Append(decided, cmp)
           /\ lastStats' = st
    /\ cur' = cur + 1
    /\ UNCHANGED <<alg, parameter, imgData, windowSize,
                   pc, grayscale, pre, minVal,
                   maxStdDev, globalStats, edges, threshold, resolved>>

\* resolve(result)
Resolve ==
    /\ UNCHANGED ui
    /\ pc = "main"
    /\ cur = width * height
    /\ pc' = "resolved"
    /\ resolved' = [width |-> width, height |-> height, data |-> result]
    /\ UNCHANGED <<alg, parameter, imgData, windowSize,
                   grayscale, pre, minVal, maxStdDev,
                   globalStats, edges, threshold, result, cur, decided,
                   lastStats>>

WellFormed(img) ==
    img.width >= 1 /\ img.height >= 1
    /\ Len(img.data) = img.width * img.height * 4
\* the values of the parameter tried: the default and an end of the
\* slider's range
ParametersOf(a) ==
    IF a = "otsu" THEN {0, 100}
    ELSE IF a \in {"niblack", "nick"} THEN {DefaultParameter(a), -50}
    ELSE {DefaultParameter(a), 100}

\* the raster with its pixels in the opposite order
Reversed(img) ==
    [width |-> img.width, height |-> img.height,
     data |-> [j \in 1..Len(img.data) |->
                  img.data[Len(img.data) - 4 * ((j - 1) \div 4) - 3 + ((j - 1) % 4)]]]

\* A later call that forgets to start from fresh values: what the first
\* passes left behind is kept
RestartKeepingLocals ==
    /\ UNCHANGED ui
    /\ pc = "resolved"
    /\ WellFormed(imgData)
    /\ \E k \in ParametersOf(alg) : \E img \in {imgData, Reversed(imgData)} :
           /\ parameter' = k
           /\ imgData' = img
    /\ pc' = "scheduled"
    /\ windowSize' = 0
    /\ grayscale' = <<>>
    /\ pre' = 0
    /\ result' = <<>>
    /\ cur' = 0
    /\ decided' = <<>>
    /\ lastStats' = NoStats
    /\ resolved' = NoImage
    /\ UNCHANGED <<alg, minVal, maxStdDev, globalStats, edges, threshold>>

\* The component calls process again (a new parameter, a new image): the
\* callback of the new call declares its variables afresh
Restart ==
    /\ UNCHANGED ui
    /\ pc = "resolved"
    /\ WellFormed(imgData)
    /\ \E k \in ParametersOf(alg) : \E img \in {imgData, Reversed(imgData)} :
           /\ parameter' = k
           /\ imgData' = img
    /\ pc' = "scheduled"
    /\ windowSize' = 0
    /\ grayscale' = <<>>
    /\ pre' = 0
    /\ minVal' = 255
    /\ maxStdDev' = ZeroStdDev
    /\ globalStats' = ZeroSums
    /\ edges' = <<>>
    /\ threshold' = 0
    /\ result' = <<>>
    /\ cur' = 0
    /\ decided' = <<>>
    /\ lastStats' = NoStats
    /\ resolved' = NoImage
    /\ UNCHANGED alg

\* The statement windowSize = ... of the callback, alone: the dimensions
\* of large scans, whose pixels the model does not enumerate
SizeWindow ==
    /\ UNCHANGED ui
    /\ pc = "scheduled"
    /\ windowSize' = WindowSizeOf(width, height)
    /\ pc' = "sized"
    /\ UNCHANGED <<alg, parameter, imgData, grayscale, pre, minVal, maxStdDev,
                   globalStats, edges, threshold, result, cur, decided,
                   lastStats, resolved>>

NextRun == Call \/ Begin \/ PrePassStep \/ PrePassEnd \/ MainStep \/ Resolve
Next == NextRun \/ BeginThrows \/ PrePassEndThrows \/ Restart

\* ------------------------------------------------------------------------
\* Inputs
\* ------------------------------------------------------------------------
MaxW == 3
MaxH == 3
MaxPixels == 6
\* RGBA samples of the input pixels
Palette == {<<0, 0, 0, 255>>, <<255, 255, 255, 128>>}
Flat(ps) == [j \in 1..(4 * Len(ps)) |-> ps[((j - 1) \div 4) + 1][((j - 1) % 4) + 1]]
Dims == {d \in (1..MaxW) \X (1..MaxH) : d[1] * d[2] <= MaxPixels}
ImagesOf(dims, palette) ==
    UNION {{[width |-> d[1], height |-> d[2], data |-> Flat(ps)] :
              ps \in [1..(d[1] * d[2]) -> palette]} : d \in dims}
\* images of the largest size: stripes along x or y, and one pixel that
\* differs from all the others
PatternPixels(w, h) ==
    {[i \in 1..(w * h) |-> IF byRow THEN c[((i - 1) \div w) + 1]
                                     ELSE c[((i - 1) % w) + 1]] :
        byRow \in BOOLEAN, c \in [1..Max2(w, h) -> Palette]}
    \cup {[i \in 1..(w * h) |-> IF i = dot THEN c[1] ELSE c[2]] :
             dot \in 1..(w * h), c \in Palette \X Palette}
PatternImages ==
    {[width |-> MaxW, height |-> MaxH, data |-> Flat(ps)] :
        ps \in PatternPixels(MaxW, MaxH)}
WellFormedImages == ImagesOf(Dims, Palette) \cup PatternImages
\* rasters no ImageData can be: an empty side, or a sample count that is
\* not width * height * 4
EmptyImages ==
    {[width |-> d[1], height |-> d[2], data |-> <<>>] :
        d \in {<<0, 0>>, <<0, 1>>, <<1, 0>>}}
MismatchedImages ==
    UNION {{[width |-> d[1], height |-> d[2], data |-> SubSeq(Flat(ps), 1, n)] :
              ps \in [1..(d[1] * d[2] + 1) -> Palette],
              n \in {4 * d[1] * d[2] - 4, 4 * d[1] * d[2] - 2,
                     4 * d[1] * d[2] + 4}} :
           d \in {<<1, 1>>, <<2, 1>>}}
Init ==
    \E a \in Algorithms : \E k \in ParametersOf(a) :
        \E img \in WellFormedImages \cup EmptyImages \cup MismatchedImages :
            StartState(a, k, img)
Spec == Init /\ [][Next]_vars

\* ---- uniform images: every pixel the same colour ----
UniformSide == 10
UniformPixels ==
    {<<0, 0, 0, 0>>, <<1, 1, 1, 255>>, <<128, 128, 128, 255>>,
     <<255, 255, 255, 255>>, <<200, 30, 90, 255>>}
UniformDims == {<<1, 1>>, <<3, 2>>, <<UniformSide, UniformSide>>}
UniformImages ==
    {[width |-> d[1], height |-> d[2],
      data |-> Flat([i \in 1..(d[1] * d[2]) |-> px])] :
        d \in UniformDims, px \in UniformPixels}
InitUniform ==
    \E a \in Algorithms : \E k \in ParametersOf(a) :
        \E img \in UniformImages : StartState(a, k, img)
SpecUniform == InitUniform /\ [][NextRun]_vars

\* ---- Otsu on gray images of a few levels ----
MaxGray == 2
OtsuW == 2
OtsuH == 2
GrayPalette == {<<v, v, v, 255>> : v \in 0..MaxGray}
InitOtsu ==
    \E img \in ImagesOf((1..OtsuW) \X (1..OtsuH), GrayPalette) :
        StartState("otsu", 0, img)
SpecOtsu == InitOtsu /\ [][NextRun]_vars

\* ---- the window size of large images ----
MaxSide == 95
InitWindow ==
    \E a \in {"niblack", "wolf"} : \E w \in 1..MaxSide : \E h \in 1..MaxSide :
        StartState(a, DefaultParameter(a),
                   [width |-> w, height |-> h, data |-> <<>>])
NextWindow == Call \/ SizeWindow
SpecWindow == InitWindow /\ [][NextWindow]_vars

\* ------------------------------------------------------------------------
\* Properties
\* ------------------------------------------------------------------------
\* the R sample of output pixel i (i from 0)
OutAt(data, i) == data[4 * i + 1]
Written == 0..(cur - 1)

\* C1: for every algorithm and every well-formed input of width w and
\* height h, the image the promise resolves with has width w and height h,
\* and at every pixel R = G = B, that value is 0 or 255, and alpha is 255.
C1_OutputIsBinaryImage ==
    (pc = "resolved" /\ WellFormed(imgData)) =>
        /\ resolved.width = imgData.width
        /\ resolved.height = imgData.height
        /\ Len(resolved.data) = 4 * imgData.width * imgData.height
        /\ \A i \in 0..(imgData.width * imgData.height - 1) :
               /\ resolved.data[4 * i + 1] \in {0, 255}
               /\ resolved.data[4 * i + 2] = resolved.data[4 * i + 1]
               /\ resolved.data[4 * i + 3] = resolved.data[4 * i + 1]
               /\ resolved.data[4 * i + 4] = 255
\* a WAN run on a well-formed image has resolved with both classes present
C1_Witness ==
    /\ pc = "resolved" /\ WellFormed(imgData) /\ alg = "wan"
    /\ \E i, j \in 0..(width * height - 1) :
           OutAt(resolved.data, i) = 0 /\ OutAt(resolved.data, j) = 255

\* C2: a raster with width < 1, height < 1 or a sample count other than
\* width * height * 4 is refused: no image is ever delivered for it.
C2_MalformedInputDeliversNothing ==
    ~WellFormed(imgData) => pc # "resolved"

\* C3: a pixel is written 255 only when its gray value is strictly greater
\* than its threshold; when the two are equal it is written 0.  For Otsu
\* the threshold is the integer found; for Niblack on a window of zero
\* deviation it is the window's mean, sum / count.
C3_StrictDecision ==
    /\ \A i \in Written :
           /\ OutAt(result, i) = (IF decided[i + 1] = "gt" THEN 255 ELSE 0)
           /\ decided[i + 1] = "eq" => OutAt(result, i) = 0
           /\ alg = "otsu" =>
                  (OutAt(result, i) = 255 <=> At(grayscale, i) > threshold)
    /\ (alg = "niblack" /\ cur > 0 /\ lastStats.D = 0
          /\ At(grayscale, cur - 1) * lastStats.count = lastStats.sum)
        => OutAt(result, cur - 1) = 0
\* a pixel that is not black equals its threshold and was written 0
C3_Witness ==
    /\ alg = "niblack" /\ cur > 0 /\ lastStats.D = 0
    /\ At(grayscale, cur - 1) > 0
    /\ At(grayscale, cur - 1) * lastStats.count = lastStats.sum
    /\ decided[cur] = "eq"
    /\ OutAt(result, cur - 1) = 0

\* The between-class variance of threshold t as a real number:
\* wB * wF * (sumB / wB - sumF / wF)^2 = num / den
ExactVariance(gray, t) ==
    LET B == {i \in 1..Len(gray) : gray[i] <= t}
        F == {i \in 1..Len(gray) : gray[i] > t}
        wB == Cardinality(B)
        wF == Cardinality(F)
        sumB == SumOver(gray, 1, {<<i - 1, 0>> : i \in B}, FALSE)
        sumF == SumOver(gray, 1, {<<i - 1, 0>> : i \in F}, FALSE)
        d == sumB * wF - sumF * wB
    IN  [num |-> d * d, den |-> wB * wF]
\* the thresholds with a non-empty background and a non-empty foreground
TwoClassThresholds(gray) ==
    {t \in 0..255 : \E i, j \in 1..Len(gray) : gray[i] <= t /\ gray[j] > t}
ExactLess(a, b) == a.num * b.den < b.num * a.den

\* C4: the threshold Otsu binarizes with is the lowest t, among those with
\* both classes non-empty, at which wB * wF * (mB - mF)^2 is maximal.
C4_OtsuLowestMaximiser ==
    (alg = "otsu" /\ pre = 1 /\ TwoClassThresholds(grayscale) # {}) =>
        /\ threshold \in TwoClassThresholds(grayscale)
        /\ \A u \in TwoClassThresholds(grayscale) :
               /\ ~ExactLess(ExactVariance(grayscale, threshold),
                             ExactVariance(grayscale, u))
               /\ u < threshold =>
                      ExactLess(ExactVariance(grayscale, u),
                                ExactVariance(grayscale, threshold))

AllBlack(img) == \A j \in 1..Len(img.data) : img.data[j] = 0
IsDefault == alg = "otsu" \/ parameter = DefaultParameter(alg)

\* C5: on an image whose samples are all 0, each algorithm run with its
\* default parameter writes 0 at every pixel, a NaN threshold included.
C5_AllBlackStaysBlack ==
    (WellFormed(imgData) /\ AllBlack(imgData) /\ IsDefault) =>
        /\ \A i \in Written : OutAt(result, i) = 0
        /\ pc = "resolved" =>
               \A i \in 0..(width * height - 1) : OutAt(resolved.data, i) = 0
\* Wolf has resolved on the all-black image of the largest side, having
\* compared against a NaN threshold
C5_Witness ==
    /\ pc = "resolved" /\ alg = "wolf" /\ IsDefault
    /\ AllBlack(imgData) /\ width = UniformSide /\ height = UniformSide
    /\ decided[1] = "nan"
    /\ \A i \in 0..(width * height - 1) : OutAt(resolved.data, i) = 0

IsUniform(gray) == \A i \in 1..Len(gray) : gray[i] = gray[1]

\* C6: on an image whose pixels all have the same gray value every window
\* has standard deviation 0 (and so has the maximum Wolf keeps), and the
\* pixels written all belong to one class.
C6_UniformOneClass ==
    (pc \notin {"idle", "scheduled"} /\ IsUniform(grayscale)) =>
        /\ lastStats.D = 0
        /\ maxStdDev.D = 0
        /\ \A i \in Written :
               OutAt(result, i) = OutAt(result, 0) /\ decided[i + 1] = decided[1]
\* Sauvola has resolved all-foreground on a uniform image of the largest
\* side, its last window a full one of nonzero samples
C6_Witness ==
    /\ pc = "resolved" /\ alg = "sauvola" /\ IsUniform(grayscale)
    /\ width = UniformSide /\ height = UniformSide
    /\ lastStats.D = 0 /\ lastStats.sum > 0 /\ lastStats.count > 1
    /\ \A i \in 0..(width * height - 1) : OutAt(resolved.data, i) = 255

\* C7: in Wolf, when the first pass leaves maxStdDev = 0, the quotient
\* stdDev / maxStdDev is not computed as 0 / 0: no pixel is compared
\* against a NaN threshold, and the threshold used is the local mean.
C7_WolfDegenerateRatioIsZero ==
    (alg = "wolf" /\ WellFormed(imgData) /\ pc \in {"main", "resolved"}
       /\ maxStdDev.D = 0) =>
        \A i \in Written :
            /\ decided[i + 1] # "nan"
            /\ cur = i + 1 =>
                   /\ ~WolfRatioIsNaN(lastStats, maxStdDev)
                   /\ decided[i + 1] =
                          CmpOfSign(Sgn(At(grayscale, i) * lastStats.count
                                        - lastStats.sum))

\* the pixel the window statistics kept in lastStats were computed for
StatsPixel == IF alg = "wolf" /\ cur = 0 THEN pre - 1 ELSE cur - 1
StatsAt(i) ==
    calculateLocalStats(grayscale, i % width, i \div width, width, height,
                        windowSize)

\* C8: Wolf writes no output pixel, and allocates no output, before its
\* first pass has visited every pixel; the minVal and maxStdDev of the
\* per-pixel pass are the least gray value of the whole image and the
\* greatest window standard deviation over all its pixels.
C8_WolfTwoPhase ==
    (alg = "wolf" /\ (cur > 0 \/ result # <<>> \/ pc \in {"main", "resolved"})) =>
        /\ pre = width * height
        /\ \A i \in 1..Len(grayscale) : minVal <= grayscale[i]
        /\ \E i \in 1..Len(grayscale) : minVal = grayscale[i]
        /\ \A i \in 0..(width * height - 1) :
               ~StdDevGt(StdDevOf(StatsAt(i)), maxStdDev)
        /\ \E i \in 0..(width * height - 1) :
               ~StdDevGt(maxStdDev, StdDevOf(StatsAt(i)))
\* Wolf is writing pixels of an image whose first pixel is neither its
\* darkest nor in its most varied window: the running values after one
\* pixel differ from the ones in use
C8_Witness ==
    /\ alg = "wolf" /\ pc = "main" /\ cur > 0
    /\ At(grayscale, 0) > minVal
    /\ StdDevGt(maxStdDev, StdDevOf(StatsAt(0)))

\* C9: the window of every pixel (x, y) reads only samples inside the
\* image, the pixel itself among them, so its count is at least 1; it is
\* the square of side 2 * halfWindow + 1 around the pixel cut at the
\* image's edges, smaller than the full square wherever the square
\* crosses an edge.
C9_WindowClamped ==
    lastStats # NoStats =>
        LET x == StatsPixel % width
            y == StatsPixel \div width
            half == windowSize \div 2
            full == (2 * half + 1) * (2 * half + 1)
            atBorder == \/ x < half \/ x > width - 1 - half
                        \/ y < half \/ y > height - 1 - half
        IN  /\ lastStats.reads \subseteq (0..(width - 1)) \X (0..(height - 1))
            /\ <<x, y>> \in lastStats.reads
            /\ lastStats.count >= 1
            /\ lastStats.count = Cardinality(lastStats.reads)
            /\ lastStats.reads =
                   {q \in (0..(width - 1)) \X (0..(height - 1)) :
                       /\ Abs(q[1] - x) <= half
                       /\ Abs(q[2] - y) <= half}
            /\ atBorder => lastStats.count < full
            /\ ~atBorder => lastStats.count = full
\* the window of the last corner of the largest image: 4 samples of 9
C9_Witness ==
    /\ width = MaxW /\ height = MaxH /\ cur = width * height
    /\ alg = "nick"
    /\ lastStats.reads = ((width - 2)..(width - 1)) \X ((height - 2)..(height - 1))
    /\ lastStats.count = 4

\* C10: windowSize = max(3, ceil(min(width, height) / 30)): it is at least
\* 3, thirty times it covers the shorter side, and above 3 it is the
\* least such integer; so 3 up to a shorter side of 90 (30 and 31
\* included) and 4 at 91.
C10_WindowSizePolicy ==
    pc = "sized" =>
        LET m == Min2(width, height)
        IN  /\ windowSize >= 3
            /\ 30 * windowSize >= m
            /\ windowSize > 3 => 30 * (windowSize - 1) < m
            /\ m = 30 => windowSize = 3
            /\ m = 31 => windowSize = 3
            /\ m <= 90 => windowSize = 3
            /\ m = 91 => windowSize = 4
\* the size computed for a 91-pixel shorter side
C10_Witness ==
    /\ pc = "sized" /\ width = 91 /\ height = 93 /\ windowSize = 4

\* ------------------------------------------------------------------------
\* The window statistics of large images: one call of the statistics the
\* per-pixel loop makes at (x, y), for dimensions whose pixels the model
\* does not enumerate (the samples are those of an empty buffer: zeros)
\* ------------------------------------------------------------------------
ProbeSide == 91
ProbeCoords(side, half) == {0, half - 1, half, side \div 2, side - 1 - half, side - 1}
StatsCall ==
    /\ UNCHANGED ui
    /\ pc = "sized"
    /\ \E x \in ProbeCoords(width, windowSize \div 2) :
       \E y \in ProbeCoords(height, windowSize \div 2) :
           /\ lastStats' = StatsFor(alg, toGrayscale(imgData), x, y,
                                    width, height, windowSize)
           /\ cur' = y * width + x + 1
    /\ pc' = "probed"
    /\ UNCHANGED <<alg, parameter, imgData, windowSize, grayscale, pre, minVal,
                   maxStdDev, globalStats, edges, threshold, result, decided,
                   resolved>>
InitProbe ==
    \E a \in Algorithms \ {"otsu"} :
        \E w \in {MaxW + MaxH, ProbeSide, ProbeSide + 1} :
            \E h \in {MaxW + MaxH, ProbeSide, ProbeSide + 1} :
                StartState(a, DefaultParameter(a),
                           [width |-> w, height |-> h, data |-> <<>>])
NextProbe == Call \/ SizeWindow \/ StatsCall
SpecProbe == InitProbe /\ [][NextProbe]_vars

\* C11: windowSize is the side of the window: at a pixel at least
\* floor(windowSize / 2) away from every border the window holds exactly
\* windowSize * windowSize samples, whether windowSize is odd or even.
C11_InteriorWindowIsWindowSizeSquared ==
    (pc = "probed"
       /\ LET x == StatsPixel % width
              y == StatsPixel \div width
              half == windowSize \div 2
          IN  /\ x >= half /\ x <= width - 1 - half
              /\ y >= half /\ y <= height - 1 - half)
    => lastStats.count = windowSize * windowSize

\* C12: the variance squaredSum / count - mean^2 of every window, as
\* computed in doubles, is not negative when its square root is taken, so
\* stdDev is a number and not negative; it is zero exactly when the
\* window's samples are all equal.
C12_VarianceNotNegative ==
    lastStats # NoStats =>
        /\ varianceOf(lastStats).s >= 0
        /\ varianceOf(lastStats).s = 0 <=> lastStats.D = 0
        /\ lastStats.D >= 0
\* a full window of samples that are not all equal
C12_Witness ==
    /\ lastStats.count = 9 /\ lastStats.D > 0
    /\ varianceOf(lastStats).s = 1

\* ------------------------------------------------------------------------
\* The decision at pixel i as a function of the gray buffer, the
\* dimensions and the parameter alone: the quantities of the first passes
\* are recomputed from the buffer.
\* ------------------------------------------------------------------------
SeqSum(gray, sq) == SumOver(gray, 1, {<<i - 1, 0>> : i \in 1..Len(gray)}, sq)
LeastGray(gray) ==
    IF gray = <<>> THEN 255
    ELSE CHOOSE m \in {gray[i] : i \in 1..Len(gray)} :
             \A i \in 1..Len(gray) : m <= gray[i]
RECURSIVE GreatestStdDev(_, _, _, _, _)
GreatestStdDev(gray, w, h, ws, n) ==
    IF n = 0 THEN ZeroStdDev
    ELSE MaxStdDev(GreatestStdDev(gray, w, h, ws, n - 1),
                   StdDevOf(calculateLocalStats(gray, (n - 1) % w, (n - 1) \div w,
                                                w, h, ws)))
DecisionAt(a, k, gray, w, h, i) ==
    LET x == i % w
        y == i \div w
        ws == WindowSizeOf(w, h)
    IN  CmpFor(a, At(gray, i), StatsFor(a, gray, x, y, w, h, ws), k,
               IF a = "otsu" THEN otsuThresholdOf(gray) ELSE 0,
               IF a = "wolf" THEN LeastGray(gray) ELSE 255,
               IF a = "wolf" THEN GreatestStdDev(gray, w, h, ws, w * h)
               ELSE ZeroStdDev,
               IF a = "isauvola"
               THEN [sum |-> SeqSum(gray, FALSE), squaredSum |-> SeqSum(gray, TRUE),
                     count |-> Len(gray)]
               ELSE ZeroSums,
               IF a = "wan" /\ x \in 1..(w - 2) /\ y \in 1..(h - 2)
               THEN EdgeAt(gray, x, y, w) ELSE Float32Sqrt(0))
ValueAt(a, k, gray, w, h, i) ==
    IF DecisionAt(a, k, gray, w, h, i) = "gt" THEN 255 ELSE 0

\* ---- grayscale conversion: pixels of many colours and alphas ----
Channel == {0, 128, 250, 255}
Alphas == {0, 128, 255}
ColourPixels == {<<r, g, b, a>> : r \in Channel, g \in Channel, b \in Channel,
                                 a \in Alphas}
ColourImages ==
    {[width |-> 1, height |-> 1, data |-> c] : c \in ColourPixels}
    \cup {[width |-> 2, height |-> 1, data |-> c \o d] :
             c \in ColourPixels, d \in Palette}
InitColour ==
    \E a \in {"otsu", "sauvola", "wolf"} : \E img \in ColourImages :
        StartState(a, DefaultParameter(a), img)
SpecColour == InitColour /\ [][NextRun]_vars

\* the raster with every alpha sample set to 255
Opaque(img) ==
    [width |-> img.width, height |-> img.height,
     data |-> [j \in 1..Len(img.data) |->
                  IF j % 4 = 0 THEN 255 ELSE img.data[j]]]
\* 1000 * (0.299 R + 0.587 G + 0.114 B) of pixel i
Luminance1000(data, i) ==
    299 * data[4 * i + 1] + 587 * data[4 * i + 2] + 114 * data[4 * i + 3]

\* C13: the gray buffer has width * height samples, each an integer of
\* 0..255 that is 0.299 R + 0.587 G + 0.114 B of its pixel rounded to an
\* integer; it is the buffer of the raster made opaque, and every output
\* pixel is a function of it, so neither depends on the alpha samples.
C13_GrayscaleIsLuminance ==
    (pc \notin {"idle", "scheduled"} /\ WellFormed(imgData)) =>
        /\ Len(grayscale) = width * height
        /\ \A i \in 0..(width * height - 1) :
               /\ At(grayscale, i) \in 0..255
               /\ Abs(1000 * At(grayscale, i) - Luminance1000(imgData.data, i))
                     <= 500
        /\ grayscale = toGrayscale(Opaque(imgData))
        /\ \A i \in Written :
               OutAt(result, i) = ValueAt(alg, parameter, grayscale, width, height, i)
\* a run has resolved on a translucent pixel whose luminance is not an
\* integer
C13_Witness ==
    /\ pc = "resolved" /\ imgData.data[4] = 128
    /\ Luminance1000(imgData.data, 0) % 1000 \notin {0, 500}
    /\ At(grayscale, 0) \in 1..254
    /\ width = 2 /\ OutAt(resolved.data, 0) # OutAt(resolved.data, 1)
\* ---- C14 ----
\* C14: Otsu takes nothing from the parameter or from earlier runs.
\* Whatever parameter was passed and whatever calls came before, the gray
\* buffer is the conversion of this call's raster, the threshold found is
\* the Otsu threshold of that buffer, every pixel written is 255 exactly
\* when its gray value exceeds that threshold, and what is delivered is
\* that buffer of pixels: the output is a function of the raster alone.
C14_OtsuIgnoresParameter ==
    (alg = "otsu" /\ WellFormed(imgData) /\ pc \notin {"idle", "scheduled"}) =>
        /\ grayscale = toGrayscale(imgData)
        /\ pre = 1 => threshold = otsuThresholdOf(grayscale)
        /\ cur > 0 => pre = 1
        /\ \A i \in Written :
              OutAt(result, i) = IF At(grayscale, i) > threshold THEN 255 ELSE 0
        /\ pc = "resolved" =>
              /\ cur = width * height
              /\ resolved = [width |-> width, height |-> height, data |-> result]

\* an Otsu run delivered with the slider at its far end, both classes
\* present in the output
C14_Witness ==
    /\ alg = "otsu"
    /\ parameter = 100
    /\ pc = "resolved"
    /\ \E i, j \in Written :
          OutAt(resolved.data, i) = 0 /\ OutAt(resolved.data, j) = 255

\* ---- C15 ----
\* checkerboards of black and white opaque pixels, of every size up to
\* BoardSide x BoardSide, starting with either colour
BoardSide == 4
BoardPixel(x, y, phase) ==
    IF (x + y + phase) % 2 = 0 THEN <<0, 0, 0, 255>> ELSE <<255, 255, 255, 255>>
BoardImage(w, h, phase) ==
    [width |-> w, height |-> h,
     data |-> Flat([i \in 1..(w * h) |->
                      BoardPixel((i - 1) % w, (i - 1) \div w, phase)])]
InitBoard ==
    \E w, h \in 1..BoardSide : \E phase \in {0, 1} :
        StartState("otsu", 0, BoardImage(w, h, phase))
SpecBoard == InitBoard /\ [][NextRun]_vars

\* C15: on a checkerboard of 0 and 255 with both colours present (the
\* 4 x 4 board among them) the Otsu threshold found is at least 0 and
\* below 255, every pixel written is the input pixel, and the image
\* delivered has the samples of the input.
C15_CheckerboardUnchanged ==
    (width * height >= 2) =>
        /\ pre = 1 => (0 <= threshold /\ threshold < 255)
        /\ \A i \in Written :
              /\ OutAt(result, i) = OutAt(imgData.data, i)
              /\ \A c \in 1..4 : result[4 * i + c] = imgData.data[4 * i + c]
        /\ pc = "resolved" => resolved = imgData

\* the 4 x 4 board, binarized
C15_Witness ==
    /\ width = 4
    /\ height = 4
    /\ pc = "resolved"
    /\ OutAt(resolved.data, 0) = 0
    /\ OutAt(resolved.data, 1) = 255
    /\ OutAt(resolved.data, 4) = 255
    /\ threshold = 0

\* ---- C17 ----
\* the stages of a run: Idle, GrayscaleReady (first passes), StatsReady
\* (per-pixel pass), Done
Stage(p) ==
    CASE p \in {"idle", "scheduled"} -> 0
      [] p = "prepass" -> 1
      [] p = "main" -> 2
      [] p = "resolved" -> 3
      [] OTHER -> 4
\* in every state of a run: the gray buffer is there before any pass, an
\* algorithm without a first pass never is in one, no pixel is decided
\* before the first pass has visited all it visits, a call starts from the
\* declared values of its variables, and what is delivered is the value
\* the run's raster and parameter determine
StagesInOrder ==
    /\ (Stage(pc) \in 1..3 /\ WellFormed(imgData)) =>
          Len(grayscale) = width * height
    /\ pc = "prepass" => HasPrePass(alg)
    /\ ~HasPrePass(alg) => pre = 0
    /\ (HasPrePass(alg) /\ (cur > 0 \/ Stage(pc) \in 2..3)) => pre = PreTotal
    /\ Stage(pc) < 2 => (cur = 0 /\ decided = <<>>)
    /\ pc = "scheduled" =>
          /\ grayscale = <<>> /\ pre = 0 /\ cur = 0 /\ result = <<>>
          /\ minVal = 255 /\ maxStdDev = ZeroStdDev /\ globalStats = ZeroSums
          /\ edges = <<>> /\ threshold = 0
    /\ pc = "resolved" =>
          /\ cur = width * height
          /\ \A i \in Written :
                OutAt(resolved.data, i) =
                    ValueAt(alg, parameter, grayscale, width, height, i)
\* in every step: the stage changes only to the next one (from Idle to
\* the per-pixel pass directly when there is no first pass), or from Done
\* to the start of the next call; the gray buffer does not change once
\* computed, nor what the first pass found once the per-pixel pass runs
StageSteps ==
    /\ Stage(pc') # Stage(pc) =>
          \/ Stage(pc) = 0 /\ pc = "scheduled"
               /\ pc' = IF HasPrePass(alg) THEN "prepass" ELSE "main"
          \/ Stage(pc) = 1 /\ pc' = "main"
          \/ Stage(pc) = 2 /\ pc' = "resolved"
          \/ Stage(pc) = 3 /\ pc' = "scheduled"
          \/ ~WellFormed(imgData) /\ Stage(pc) < 2 /\ pc' = "thrown"
    /\ (Stage(pc) \in 1..2 /\ Stage(pc') \in 1..3) => grayscale' = grayscale
    /\ (Stage(pc) = 2 /\ Stage(pc') \in 2..3) =>
          /\ pre' = pre
          /\ <<minVal, maxStdDev, globalStats, edges, threshold>>' =
                <<minVal, maxStdDev, globalStats, edges, threshold>>

\* C17: a run passes through Idle, GrayscaleReady, StatsReady and Done in
\* that order and never back; the gray buffer precedes the first pass,
\* the first pass of Otsu, Wolf, ISauvola and WAN is complete before the
\* first pixel is decided, the other algorithms go from the gray buffer
\* to the per-pixel pass directly; and nothing of one call is left for the
\* next, so that the result is determined by the call's raster and parameter.
C17_StagesInOrder ==
    []StagesInOrder /\ [][StageSteps]_vars

\* a Wolf run, delivered after a first pass over several pixels, with a
\* parameter other than the default
C17_Witness ==
    /\ alg = "wolf"
    /\ pc = "resolved"
    /\ pre = PreTotal
    /\ pre >= 4
    /\ parameter # DefaultParameter(alg)
    /\ \E i, j \in Written :
          OutAt(resolved.data, i) # OutAt(resolved.data, j)

\* ---- C18 ----
\* the per-pixel pass taken in any order: the body of the loop at pixel i
AnyOrderPixels == 4
\* A body of the loop that looks at the output of the pixel before: once a
\* pixel is white the next one is white too
DecisionAfterNeighbour(i) ==
    IF i > 0 /\ result[4 * i] = 255 /\ OutAt(result, i - 1) = 255 THEN "gt"
    ELSE CmpFor(alg, At(grayscale, i),
                StatsFor(alg, grayscale, i % width, i \div width, width, height,
                         windowSize),
                parameter, threshold, minVal, maxStdDev, globalStats,
                IF alg = "wan" THEN At(edges, i) ELSE Float32Sqrt(0))
\* the outcome of gray > threshold at pixel i, as the body of the loop
\* computes it
DecisionOf(i) ==
    CmpFor(alg, At(grayscale, i),
           StatsFor(alg, grayscale, i % width, i \div width, width, height,
                    windowSize),
           parameter, threshold, minVal, maxStdDev, globalStats,
           IF alg = "wan" THEN At(edges, i) ELSE Float32Sqrt(0))
\* the pixels the pass has not written yet: their alpha is still 0
Unwritten == {i \in 0..(width * height - 1) : result[4 * i + 4] = 0}
DecideAnyPixel ==
    /\ UNCHANGED ui
    /\ pc = "main"
    /\ \E i \in Unwritten :
          /\ result' = WritePixel(result, i, pixelValue(DecisionOf(i)))
          /\ decided' = Append(decided, DecisionOf(i))
          /\ lastStats' = StatsFor(alg, grayscale, i % width, i \div width,
                                    width, height, windowSize)
    /\ cur' = cur + 1
    /\ UNCHANGED <<alg, parameter, imgData, windowSize,
                   pc, grayscale, pre, minVal,
                   maxStdDev, globalStats, edges, threshold, resolved>>
InitAnyOrder ==
    \E a \in Algorithms : \E k \in ParametersOf(a) :
        \E img \in ImagesOf({d \in Dims : d[1] * d[2] <= AnyOrderPixels}, Palette) :
            StartState(a, k, img)
NextAnyOrder ==
    Call \/ Begin \/ PrePassStep \/ PrePassEnd \/ DecideAnyPixel \/ Resolve
SpecAnyOrder == InitAnyOrder /\ [][NextAnyOrder]_vars

\* whichever pixels were written, each has the value the gray buffer and
\* the parameter determine for it
WrittenAsDetermined ==
    Stage(pc) \in 2..3 =>
        \A i \in (0..(width * height - 1)) \ Unwritten :
            OutAt(result, i) = ValueAt(alg, parameter, grayscale, width, height, i)
\* a step of the pass reads the gray buffer, the first-pass results and
\* the edge map and leaves them as they are; it writes one pixel and no
\* other sample of the result
PassWritesOnePixel ==
    (pc = "main" /\ pc' = "main") =>
        /\ <<grayscale, minVal, maxStdDev, globalStats, edges, threshold>>' =
              <<grayscale, minVal, maxStdDev, globalStats, edges, threshold>>
        /\ \E i \in Unwritten :
              \A j \in 1..Len(result) :
                  (j - 1) \div 4 # i => result'[j] = result[j]

\* C18: the decision at a pixel depends on the gray buffer, the results of
\* the first pass and the edge map, which the pass does not modify, and
\* on no other pixel's output: taken in any order, the pass gives every
\* pixel the value the row-major pass gives it.
C18_AnyOrderSameImage ==
    []WrittenAsDetermined /\ [][PassWritesOnePixel]_vars

\* the last pixel of a 2 x 2 image written while the first is not
C18_Witness ==
    /\ pc = "main"
    /\ width = 2 /\ height = 2
    /\ cur = 2
    /\ Unwritten = {0, 1}
    /\ OutAt(result, 3) = 255
    /\ OutAt(result, 2) = 0

\* ---- C20 ----
\* the buffer of the result starts as a new, zero-filled ImageData of the
\* input's dimensions, and what is delivered is that buffer
ResultIsNewBuffer ==
    /\ (pc = "main" /\ cur = 0) => result = NewImageData(width, height)
    /\ pc = "resolved" =>
          /\ resolved.width = width
          /\ resolved.height = height
          /\ resolved.data = result
          /\ WellFormed(imgData) => Len(resolved.data) = Len(imgData.data)
\* width, height and samples of the input change in no step of a run:
\* only a new call brings another raster
InputUntouched ==
    imgData' # imgData => (pc = "resolved" /\ pc' = "scheduled")

\* C20: no algorithm writes to its input: from the call to the delivery
\* width, height and every RGBA sample of the input stay as they were,
\* and the result is built in a buffer created by the run.
C20_InputImmutable ==
    []ResultIsNewBuffer /\ [][InputUntouched]_vars

\* a run delivered: the input still has its half-transparent first pixel,
\* the result differs from the input
C20_Witness ==
    /\ pc = "resolved"
    /\ WellFormed(imgData)
    /\ imgData.data[4] = 128
    /\ resolved.data[4] = 255
    /\ resolved.data # imgData.data
    /\ width * height >= 2

\* ---- the page: App, AlgorithmComparison and the BinarizedImage components ----
\* The page runs on one thread: a timer callback, an effect or an event
\* handler runs to its end before the next starts, and timers of equal
\* delay fire in the order they were armed. A run of an algorithm is the
\* callback at the head of timers, executed in the variables of the
\* function (alg .. resolved) by Begin .. Resolve.
MaxUploads == 2
MaxChanges == 2
\* the algorithms ticked in AlgorithmComparison
Selections == {{"otsu", "niblack"}, {"sauvola", "wolf"}}
\* the uploaded images: small opaque rasters
PageImages == {BoardImage(2, 1, 0), BoardImage(1, 2, 1)}
hasParameter(a) == a # "otsu"
NoRun == [k |-> 0, img |-> NoImage]
\* a BinarizedImage as mounted: useState(defaultParameter || 0), useState(null),
\* an empty canvas; started, late and of record which run was delivered
Mounted(a) ==
    [parameter |-> IF hasParameter(a) THEN DefaultParameter(a) ELSE 0,
     canvas |-> NoImage,
     processedImage |-> NoImage,
     started |-> 0,
     late |-> FALSE,
     of |-> NoRun]
\* the variables a callback declares, at their declarations
DeclareLocals ==
    /\ windowSize' = 0
    /\ grayscale' = <<>>
    /\ pre' = 0
    /\ minVal' = 255
    /\ maxStdDev' = ZeroStdDev
    /\ globalStats' = ZeroSums
    /\ edges' = <<>>
    /\ threshold' = 0
    /\ result' = <<>>
    /\ cur' = 0
    /\ decided' = <<>>
    /\ lastStats' = NoStats
    /\ resolved' = NoImage
locals == <<alg, parameter, imgData, windowSize, pc, grayscale, pre, minVal,
            maxStdDev, globalStats, edges, threshold, result, cur, decided,
            lastStats, resolved>>
Timer(kind, comp, k, img, no) ==
    [kind |-> kind, comp |-> comp, k |-> k, img |-> img, no |-> no]

\* handleImageUpload: setIsProcessing(true), then
\* setTimeout(() => { setOriginalImage(image); setIsProcessing(false) }, 100)
Upload ==
    /\ pc = "idle"
    /\ user.uploads < MaxUploads
    /\ \E img \in PageImages :
          timers' = Append(timers, Timer("upload", "", 0, img, 0))
    /\ user' = [user EXCEPT !.uploads = @ + 1]
    /\ isProcessing' = TRUE
    /\ UNCHANGED <<locals, originalImage, components, effects, selectedAlgorithms>>

\* the callback of handleImageUpload: the new image reaches every component,
\* whose effect depends on originalImage
SetOriginalImage ==
    /\ pc = "idle"
    /\ timers # <<>>
    /\ Head(timers).kind = "upload"
    /\ originalImage' = Head(timers).img
    /\ effects' = DOMAIN components
    /\ timers' = Tail(timers)
    /\ isProcessing' = FALSE
    /\ UNCHANGED <<locals, components, user, selectedAlgorithms>>

\* handleParameterChange: setParameter(value of the slider)
ChangeParameter ==
    /\ pc = "idle"
    /\ originalImage # NoImage
    /\ user.changes < MaxChanges
    /\ \E c \in DOMAIN components :
          /\ hasParameter(c)
          /\ \E k \in ParametersOf(c) \ {components[c].parameter} :
                components' = [components EXCEPT ![c].parameter = k]
          /\ effects' = effects \cup {c}
    /\ user' = [user EXCEPT !.changes = @ + 1]
    /\ UNCHANGED <<locals, originalImage, timers, selectedAlgorithms, isProcessing>>

\* An effect whose timer overtakes the timers armed before it
RunEffectOvertaking ==
    /\ pc = "idle"
    /\ originalImage # NoImage
    /\ \E c \in effects :
          /\ components' = [components EXCEPT ![c].canvas = originalImage,
                                               ![c].started = @ + 1]
          /\ timers' = <<Timer("run", c, components[c].parameter,
                                originalImage, components[c].started + 1)>>
                        \o timers
          /\ effects' = effects \ {c}
    /\ UNCHANGED <<locals, originalImage, user, selectedAlgorithms, isProcessing>>

\* the effect of a component up to its await: the original image is drawn
\* on the component's canvas, read back, and process is called with it
RunEffect ==
    /\ pc = "idle"
    /\ originalImage # NoImage
    /\ \E c \in effects :
          /\ components' = [components EXCEPT ![c].canvas = originalImage,
                                               ![c].started = @ + 1]
          /\ timers' = Append(timers,
                               Timer("run", c, components[c].parameter,
                                     originalImage, components[c].started + 1))
          /\ effects' = effects \ {c}
    /\ UNCHANGED <<locals, originalImage, user, selectedAlgorithms, isProcessing>>

\* the timer of a run fires: its callback starts
TimerFires ==
    /\ pc = "idle"
    /\ timers # <<>>
    /\ Head(timers).kind = "run"
    /\ alg' = Head(timers).comp
    /\ parameter' = Head(timers).k
    /\ imgData' = Head(timers).img
    /\ pc' = "scheduled"
    /\ DeclareLocals
    /\ UNCHANGED ui

\* A page with one canvas and one processed image for all its components
DeliverToAll ==
    /\ pc = "resolved"
    /\ timers # <<>>
    /\ components' =
          [c \in DOMAIN components |->
              [components[c] EXCEPT
                  !.canvas = resolved,
                  !.processedImage = resolved,
                  !.late = Head(timers).no < components[c].started,
                  !.of = [k |-> Head(timers).k, img |-> Head(timers).img]]]
    /\ timers' = Tail(timers)
    /\ pc' = "idle"
    /\ DeclareLocals
    /\ UNCHANGED <<alg, parameter, imgData, originalImage, effects, user,
                   selectedAlgorithms, isProcessing>>

\* after the await: ctx.putImageData(resultData, 0, 0) and
\* setProcessedImage(resultData), whatever happened since the run started
Deliver ==
    /\ pc = "resolved"
    /\ timers # <<>>
    /\ LET run == Head(timers)
       IN  components' =
             [components EXCEPT
                 ![run.comp].canvas = resolved,
                 ![run.comp].processedImage = resolved,
                 ![run.comp].late = run.no < components[run.comp].started,
                 ![run.comp].of = [k |-> run.k, img |-> run.img]]
    /\ timers' = Tail(timers)
    /\ pc' = "idle"
    /\ DeclareLocals
    /\ UNCHANGED <<alg, parameter, imgData, originalImage, effects, user,
                   selectedAlgorithms, isProcessing>>

InitPage ==
    /\ \E sel \in Selections :
          /\ alg = CHOOSE a \in sel : TRUE
          /\ components = [c \in sel |-> Mounted(c)]
          /\ selectedAlgorithms = sel
    /\ isProcessing = FALSE
    /\ parameter = 0
    /\ imgData = NoImage
    /\ pc = "idle"
    /\ windowSize = 0
    /\ grayscale = <<>>
    /\ pre = 0
    /\ minVal = 255
    /\ maxStdDev = ZeroStdDev
    /\ globalStats = ZeroSums
    /\ edges = <<>>
    /\ threshold = 0
    /\ result = <<>>
    /\ cur = 0
    /\ decided = <<>>
    /\ lastStats = NoStats
    /\ resolved = NoImage
    /\ originalImage = NoImage
    /\ effects = {}
    /\ timers = <<>>
    /\ user = [uploads |-> 0, changes |-> 0]
NextPage ==
    \/ Upload \/ SetOriginalImage \/ ChangeParameter \/ RunEffect \/ TimerFires
    \/ Begin \/ PrePassStep \/ PrePassEnd \/ MainStep \/ Resolve \/ Deliver
SpecPage == InitPage /\ [][NextPage]_vars

\* ---- C16 ----
\* C16: a result that belongs to a run started before the component's
\* newest run is never drawn or stored: no delivery is late.
C16_StaleResultDiscarded ==
    \A c \in DOMAIN components : ~components[c].late

\* ---- C19 ----
\* the image algorithm a delivers when it is called alone with k and img
AloneResult(a, k, img) ==
    LET w == img.width
        h == img.height
        gray == SubSeq(toGrayscale(img), 1, w * h)
    IN  [width |-> w, height |-> h,
         data |-> [j \in 1..(4 * w * h) |->
                     IF j % 4 = 0 THEN 255
                     ELSE ValueAt(a, k, gray, w, h, (j - 1) \div 4)]]

\* what holds in every state of the page: the run in progress works on the
\* raster and the parameter of its own call, what it resolves with is the
\* image of the algorithm called alone, and the rasters of the calls still
\* pending are the uploaded images, untouched
RunsAreIsolated ==
    /\ \A n \in 1..Len(timers) : timers[n].img \in PageImages
    /\ pc # "idle" =>
          /\ alg = Head(timers).comp
          /\ parameter = Head(timers).k
          /\ imgData = Head(timers).img
    /\ pc = "resolved" => resolved = AloneResult(alg, parameter, imgData)
\* what holds of every step: the image a component holds changes only when
\* a run of that component ends, and then to what that run resolved with
HeldImagesAreOwnResults ==
    \A c \in DOMAIN components :
        components'[c].processedImage # components[c].processedImage =>
            /\ pc = "resolved"
            /\ c = alg
            /\ components'[c].processedImage = resolved
            /\ components'[c].canvas = resolved

\* C19: whatever the order in which effects run, timers fire and results
\* are delivered, the image a component comes to hold is the one its
\* algorithm gives when called alone with the parameter and the raster
\* that run was started with, and no run changes what another component
\* holds or the raster of another run.
C19_ConcurrentRunsAsAlone ==
    []RunsAreIsolated /\ [][HeldImagesAreOwnResults]_vars

\* a run ends while the run of the other component on the same image is
\* pending, and the other component already holds a result
C19_Witness ==
    /\ pc = "resolved"
    /\ Len(timers) >= 2
    /\ timers[2].kind = "run"
    /\ timers[2].comp # alg
    /\ timers[2].img = imgData
    /\ components[timers[2].comp].processedImage # NoImage
    /\ components[timers[2].comp].processedImage # resolved

\* ---- C21 ----
\* One call followed to its end: the timer fires and the callback, whose
\* loops are bounded, runs on until it returns or throws.
NextOnce == NextRun \/ BeginThrows \/ PrePassEndThrows
\* rasters of no pixel, one pixel and two pixels
InitOnce ==
    \E a \in Algorithms :
        \E img \in EmptyImages \cup ImagesOf({<<1, 1>>, <<2, 1>>}, Palette) :
            StartState(a, DefaultParameter(a), img)
\* a call is pending while its timer is armed or its callback is running
Pending == pc \notin {"resolved", "thrown"}
\* where a call is: its stage and the counters of its two loops
position == <<pc, pre, cur>>
\* The browser fires an armed timer and a running callback executes its
\* next statement: a pending call moves on.  Every step of NextOnce moves
\* position and NextOnce is enabled exactly while the call is pending, so
\* this is weak fairness of NextOnce, stated on the position alone.
Advance ==
    /\ Pending
    /\ pc' \in {"scheduled", "prepass", "main", "resolved", "thrown"}
    /\ pre' \in {pre, pre + 1}
    /\ cur' \in {cur, cur + 1}
SpecOnce == InitOnce /\ [][NextOnce]_vars /\ WF_position(Advance)

\* C21: every call is settled in the end: its promise is resolved with an
\* image, or rejected.  (No function ever rejects: "rejected" is a value
\* pc never takes.)
C21_EveryCallSettles ==
    <>(pc \in {"resolved", "rejected"})

\* ---- C22 ----
\* WAN on rasters with up to EdgeSide - 2 interior pixels in a row or a
\* column, and on rasters too narrow or too low to have any
EdgeSide == 4
EdgeImages ==
    UNION {{[width |-> d[1], height |-> d[2], data |-> Flat(ps)] :
              ps \in PatternPixels(d[1], d[2])} :
           d \in {<<EdgeSide, 3>>, <<3, EdgeSide>>, <<2, 3>>, <<3, 1>>, <<1, 1>>}}
InitEdges ==
    \E k \in ParametersOf("wan") : \E img \in EdgeImages :
        StartState("wan", k, img)
SpecEdges == InitEdges /\ [][NextRun]_vars

\* the Sobel kernels, by offset from the centre
KernelX(dx, dy) == dx * (IF dy = 0 THEN 2 ELSE 1)
KernelY(dx, dy) == dy * (IF dx = 0 THEN 2 ELSE 1)
Gradient(gray, w, x, y, horizontal) ==
    LET term(d) == (IF horizontal THEN KernelX(d[1], d[2]) ELSE KernelY(d[1], d[2]))
                   * gray[(y + d[2]) * w + (x + d[1]) + 1]
        offsets == (-1..1) \X (-1..1)
        S[ds \in SUBSET offsets] ==
            IF ds = {} THEN 0
            ELSE LET d == CHOOSE d \in ds : TRUE IN term(d) + S[ds \ {d}]
    IN  S[offsets]
\* f = m / 2^s is a float nearest to the square root of E: either both
\* are 0, or m has 24 bits and (2m - 1)^2 <= 4 E 2^(2s) <= (2m + 1)^2
NearestToSqrt(f, E) ==
    IF E = 0 THEN f.m = 0
    ELSE /\ f.m >= 2^23 /\ f.m <= 2^24
         /\ LET X == NShl(NOfInt(E), 2 * f.s + 2)
                lo == NOfInt(2 * f.m - 1)
                hi == NOfInt(2 * f.m + 1)
            IN  NCmp(NMul(lo, lo), X) <= 0 /\ NCmp(X, NMul(hi, hi)) <= 0
IsBorder(x, y) == x = 0 \/ y = 0 \/ x = width - 1 \/ y = height - 1

\* C22: in WAN's edge map every border pixel has strength 0 and every
\* interior pixel the Sobel magnitude sqrt(gx^2 + gy^2) of its 3 x 3
\* neighbourhood (as the nearest float); the map is complete before the
\* first pixel is thresholded; a raster less than 3 wide or high has a
\* map of zeros, and the edge pass visits interior pixels only, whose
\* neighbourhoods lie inside the raster.
C22_EdgeMap ==
    (alg = "wan" /\ Stage(pc) \in 1..3) =>
        /\ Len(edges) = width * height
        /\ cur > 0 => pre = PreTotal
        /\ Stage(pc) \in 2..3 => pre = PreTotal
        /\ (width < 3 \/ height < 3) =>
              (PreTotal = 0 /\ \A i \in 1..Len(edges) : edges[i].m = 0)
        /\ pre < PreTotal =>
              LET x == 1 + (pre % InteriorW)
                  y == 1 + (pre \div InteriorW)
              IN  /\ x - 1 >= 0 /\ x + 1 <= width - 1
                  /\ y - 1 >= 0 /\ y + 1 <= height - 1
        /\ pre = PreTotal =>
              \A x \in 0..(width - 1) : \A y \in 0..(height - 1) :
                  LET e == edges[y * width + x + 1]
                  IN  IF IsBorder(x, y) THEN e.m = 0
                      ELSE LET gx == Gradient(grayscale, width, x, y, TRUE)
                               gy == Gradient(grayscale, width, x, y, FALSE)
                           IN  NearestToSqrt(e, gx * gx + gy * gy)

\* a raster with two interior pixels of different strengths, one of them
\* not a whole number, the per-pixel pass under way
C22_Witness ==
    /\ alg = "wan"
    /\ pc = "main"
    /\ cur > 0
    /\ width = EdgeSide
    /\ height = 3
    /\ edges[width + 2] # edges[width + 3]
    /\ edges[width + 2].m # 0
    /\ edges[width + 2].m % (2 ^ edges[width + 2].s) # 0
    /\ edges[1].m = 0

\* ---- C23 ----
\* C23: in ISauvola alpha is a number between 0 and 1 at every pixel, also
\* when the global deviation is 0, so the threshold is a number: no
\* decision of an ISauvola run on a well-formed raster is taken against
\* NaN.
C23_ISauvolaAlphaDefined ==
    (alg = "isauvola" /\ WellFormed(imgData)) =>
        \A i \in 1..Len(decided) : decided[i] # "nan"

\* ---- C24 ----
\* component c has nothing under way: no effect due, no run armed or running
Settled(c) ==
    /\ c \notin effects
    /\ \A n \in 1..Len(timers) : ~(timers[n].kind = "run" /\ timers[n].comp = c)
\* nothing at all is under way on the page
Quiet == pc = "idle" /\ timers = <<>> /\ effects = {}

\* C24: when a component that has started runs has none under way, its
\* canvas and its stored image hold the result of its newest run, the one
\* on the image and the parameter the component has now; and the runs of
\* a component wait in the order in which they were started, the oldest
\* completing first.
C24_LatestRunWins ==
    /\ \A c \in DOMAIN components :
          (Settled(c) /\ components[c].started > 0) =>
              /\ components[c].processedImage # NoImage
              /\ components[c].canvas = components[c].processedImage
              /\ components[c].of =
                    [k |-> components[c].parameter, img |-> originalImage]
              /\ ~components[c].late
              /\ Quiet => components[c].processedImage =
                              AloneResult(c, components[c].parameter, originalImage)
    /\ \A m, n \in 1..Len(timers) :
          (m < n /\ timers[m].kind = "run" /\ timers[n].kind = "run"
                 /\ timers[m].comp = timers[n].comp) =>
              timers[m].no < timers[n].no
    /\ \A n \in 1..Len(timers) :
          timers[n].kind = "run" => timers[n].no <= components[timers[n].comp].started

\* all is quiet after every upload and slider change allowed, one
\* component having run three times or more, away from its default
\* parameter
C24_Witness ==
    /\ Quiet
    /\ user = [uploads |-> MaxUploads, changes |-> MaxChanges]
    /\ \E c \in DOMAIN components :
          /\ components[c].started >= 3
          /\ components[c].parameter # DefaultParameter(c)
          /\ components[c].processedImage.width = originalImage.width

\* ---- C25 ----
GreatestGray(gray) ==
    CHOOSE v \in 0..255 :
        (\E i \in 1..Len(gray) : gray[i] = v) /\ \A i \in 1..Len(gray) : gray[i] <= v

\* C25: when the gray buffer holds two distinct values or more, the
\* threshold Otsu selects is at least the smallest and below the largest
\* of them, and the output has a 0 pixel and a 255 pixel; when it holds
\* one value only, the threshold is 0.
C25_OtsuThresholdBetween ==
    (alg = "otsu" /\ pre = 1 /\ WellFormed(imgData)) =>
        IF LeastGray(grayscale) < GreatestGray(grayscale)
        THEN /\ LeastGray(grayscale) <= threshold
             /\ threshold < GreatestGray(grayscale)
             /\ pc = "resolved" =>
                   \E i, j \in 0..(width * height - 1) :
                       /\ OutAt(resolved.data, i) = 0
                       /\ OutAt(resolved.data, j) = 255
        ELSE threshold = 0

\* a run delivered whose smallest gray value is not 0 and whose threshold
\* is that value
C25_Witness ==
    /\ alg = "otsu"
    /\ pc = "resolved"
    /\ LeastGray(grayscale) = 1
    /\ GreatestGray(grayscale) = 2
    /\ threshold = 1
    /\ width * height = 4

\* ---- C26 ----
Twin(a) == IF a = "sauvola" THEN "trsingh" ELSE "sauvola"

OtsuOnResult ==
    /\ pc = "resolved"
    /\ alg' = "otsu"
    /\ parameter' = 0
    /\ imgData' = resolved
    /\ pc' = "scheduled"
    /\ DeclareLocals
    /\ UNCHANGED ui
NextTwice == NextRun \/ OtsuOnResult
SpecTwice == InitAnyOrder /\ [][NextTwice]_vars

\* a raster as the algorithms deliver it: R = G = B in {0, 255}, alpha 255
IsBinaryImage(img) ==
    /\ WellFormed(img)
    /\ \A i \in 0..(img.width * img.height - 1) :
          /\ img.data[4 * i + 1] \in {0, 255}
          /\ img.data[4 * i + 2] = img.data[4 * i + 1]
          /\ img.data[4 * i + 3] = img.data[4 * i + 1]
          /\ img.data[4 * i + 4] = 255

\* C27: Otsu applied to a binary image, such as any of the eight
\* algorithms delivers, delivers that image again: every pixel it writes
\* is the input pixel, also when all pixels are 0 or all are 255.
C27_OtsuKeepsBinaryImage ==
    /\ pc = "resolved" => IsBinaryImage(resolved)
    /\ (alg = "otsu" /\ IsBinaryImage(imgData)) =>
          /\ \A i \in Written : \A c \in 1..4 :
                result[4 * i + c] = imgData.data[4 * i + c]
          /\ pc = "resolved" => resolved = imgData

\* Otsu has delivered an all-white image of more than one pixel
C27_Witness ==
    /\ alg = "otsu"
    /\ pc = "resolved"
    /\ IsBinaryImage(imgData)
    /\ width * height >= 2
    /\ \A i \in Written : OutAt(resolved.data, i) = 255

\* ---- C28 ----
\* C28: in a Wolf run with 0 <= k <= 1 and maxStdDev > 0, at every pixel
\* the deviation of the window is at most maxStdDev and its mean at least
\* minVal, the smallest gray value of the image; the threshold is not
\* below minVal (minVal > threshold is false) and not above the mean; and
\* every pixel whose gray value is minVal is written 0.
C28_WolfThresholdBounds ==
    (/\ alg = "wolf" /\ WellFormed(imgData) /\ Stage(pc) \in 2..3
     /\ parameter \in 0..KDen /\ maxStdDev.D > 0) =>
        /\ minVal = LeastGray(grayscale)
        /\ cur > 0 =>
              /\ ~StdDevGt(StdDevOf(lastStats), maxStdDev)
              /\ lastStats.sum >= lastStats.count * minVal
              /\ WolfCmp(minVal, lastStats, parameter, minVal, maxStdDev)
                    \in {"lt", "eq"}
        /\ \A i \in Written :
              /\ At(grayscale, i) = minVal => OutAt(result, i) = 0
              /\ decided[i + 1] # "nan"

\* a Wolf run delivered: the last window deviates, less than the greatest
\* one; a pixel at the minimum is 0 and another pixel is 255
C28_Witness ==
    /\ alg = "wolf"
    /\ pc = "resolved"
    /\ parameter = DefaultParameter(alg)
    /\ lastStats.D > 0
    /\ StdDevGt(maxStdDev, StdDevOf(lastStats))
    /\ \E i, j \in Written :
          /\ At(grayscale, i) = minVal /\ OutAt(resolved.data, i) = 0
          /\ OutAt(resolved.data, j) = 255

\* ---- C29 ----
MAX_CONCURRENT_ALGORITHMS == 3
\* A size check that admits one more than the maximum
toggleAlgorithmNonStrict(algorithmId) ==
    /\ pc = "idle"
    /\ LET newSelected ==
              IF algorithmId \in selectedAlgorithms
              THEN selectedAlgorithms \ {algorithmId}
              ELSE IF Cardinality(selectedAlgorithms) <= MAX_CONCURRENT_ALGORITHMS
                   THEN selectedAlgorithms \cup {algorithmId}
                   ELSE selectedAlgorithms
       IN  /\ selectedAlgorithms' = newSelected
           /\ components' =
                 [c \in newSelected |->
                     IF c \in DOMAIN components THEN components[c] ELSE Mounted(c)]
           /\ effects' = (effects \cap newSelected) \cup (newSelected \ selectedAlgorithms)
    /\ UNCHANGED <<locals, originalImage, timers, user, isProcessing>>
\* toggleAlgorithm: a copy of the previous set, the id deleted if present,
\* added if fewer than the maximum are ticked, else the alert and the copy
\* unchanged; the grid then renders a BinarizedImage for each ticked id, a
\* newly mounted one with its effect due
toggleAlgorithm(algorithmId) ==
    /\ pc = "idle"
    /\ LET newSelected ==
              IF algorithmId \in selectedAlgorithms
              THEN selectedAlgorithms \ {algorithmId}
              ELSE IF Cardinality(selectedAlgorithms) < MAX_CONCURRENT_ALGORITHMS
                   THEN selectedAlgorithms \cup {algorithmId}
                   ELSE selectedAlgorithms
       IN  /\ selectedAlgorithms' = newSelected
           /\ components' =
                 [c \in newSelected |->
                     IF c \in DOMAIN components THEN components[c] ELSE Mounted(c)]
           /\ effects' = (effects \cap newSelected) \cup (newSelected \ selectedAlgorithms)
    /\ UNCHANGED <<locals, originalImage, timers, user, isProcessing>>
\* a checkbox of the catalog is clicked
Toggle == \E algorithmId \in Algorithms : toggleAlgorithm(algorithmId)

\* the page as first rendered: otsu, niblack and sauvola ticked, no image
InitSelection ==
    /\ alg = "otsu"
    /\ parameter = 0
    /\ imgData = NoImage
    /\ pc = "idle"
    /\ windowSize = 0
    /\ grayscale = <<>>
    /\ pre = 0
    /\ minVal = 255
    /\ maxStdDev = ZeroStdDev
    /\ globalStats = ZeroSums
    /\ edges = <<>>
    /\ threshold = 0
    /\ result = <<>>
    /\ cur = 0
    /\ decided = <<>>
    /\ lastStats = NoStats
    /\ resolved = NoImage
    /\ originalImage = NoImage
    /\ selectedAlgorithms = {"otsu", "niblack", "sauvola"}
    /\ components = [c \in selectedAlgorithms |-> Mounted(c)]
    /\ effects = {}
    /\ timers = <<>>
    /\ user = [uploads |-> 0, changes |-> 0]
    /\ isProcessing = FALSE
\* the checkboxes and the uploader; the effects of the components stay due
NextSelection == Toggle \/ Upload \/ SetOriginalImage
SpecSelection == InitSelection /\ [][NextSelection]_vars

\* C29: from the initial selection {otsu, niblack, sauvola}, after any
\* toggles at most MAX_CONCURRENT_ALGORITHMS ids are selected and all are
\* catalog ids; a toggle of a selected id removes exactly that id, and a
\* toggle of an unselected id while the maximum is selected changes
\* nothing.
SelectionWithinCatalog ==
    /\ Cardinality(selectedAlgorithms) <= MAX_CONCURRENT_ALGORITHMS
    /\ selectedAlgorithms \subseteq Algorithms
    /\ DOMAIN components = selectedAlgorithms
ToggleRemovesOrRefuses ==
    \A algorithmId \in Algorithms :
        toggleAlgorithm(algorithmId) =>
            /\ algorithmId \in selectedAlgorithms =>
                  /\ selectedAlgorithms' = selectedAlgorithms \ {algorithmId}
                  /\ algorithmId \notin selectedAlgorithms'
            /\ (/\ algorithmId \notin selectedAlgorithms
                /\ Cardinality(selectedAlgorithms) = MAX_CONCURRENT_ALGORITHMS) =>
                  selectedAlgorithms' = selectedAlgorithms
C29_SelectionBounded ==
    []SelectionWithinCatalog /\ [][ToggleRemovesOrRefuses]_vars

\* three ids are ticked, none of them of the initial selection, an image
\* is installed
C29_Witness ==
    /\ Cardinality(selectedAlgorithms) = MAX_CONCURRENT_ALGORITHMS
    /\ selectedAlgorithms \cap {"otsu", "niblack", "sauvola"} = {}
    /\ originalImage # NoImage

\* ---- C30 ----
\* an image was handed to handleImageUpload and its callback has not run
UploadPending == \E i \in 1..Len(timers) : timers[i].kind = "upload"
\* C30: isProcessing is true in every state in which an uploaded image
\* was handed to handleImageUpload and is not yet installed as
\* originalImage, a second upload before the first timer fires included.
C30_ProcessingWhileUploadPending == UploadPending => isProcessing

====
